---------------------------- MODULE Spec2Model ----------------------------
(***************************************************************************)
(* Similar-case retrieval of the multi-agent medical analysis system:      *)
(* the search tiers and the embedding methods of OpenSearchMultimodal      *)
(* (src/opensearch_multimodal.py) and SimilarSearchAgent                   *)
(* (src/agents/similar_search.py).                                         *)
(*                                                                         *)
(* Text is a sequence of one-character strings, so substring tests,        *)
(* lower(), strip() and split() are computed character by character.       *)
(* Similarity scores and index relevance scores are fixed-point numbers    *)
(* in thousandths (0.3 is 300, 1.0 is 1000).                               *)
(***************************************************************************)
EXTENDS Integers, Sequences, FiniteSets, TLC

(* ----------------------------- bounds --------------------------------- *)
\* largest top_k a direct caller of the engine passes
MaxTopK == 2
\* largest number of hits one index response carries
MaxHits == 2
\* the embedding service returns 0..MaxExtra elements, or within MaxExtra of 1024
MaxExtra == 2
\* a listing of the image prefix holds at most MaxKeys keys
MaxKeys == 3
\* the engine returns at most MaxCases results to the agent's statistics
MaxCases == 3
\* _generate_fallback_results called by itself is asked for at most MaxFallbackK cases
MaxFallbackK == 7

(* ------------------------ program constants --------------------------- *)
EmbeddingDim == 1024
MaxReadAttempts == 3
AgentTopK == 5
BaseSimilarity == 300
DiagnosisWordBonus == 300
DescriptionWordBonus == 100
FallbackTopSimilarity == 800
FallbackStep == 100
FallbackFloor == 300
ScoreDivisor == 5
One == 1000
SampleSize == 3
MonthsPerYear == 12
SeriousConfidence == 80

(* ------------------------------ text ---------------------------------- *)
UpperChars == <<"A","B","C","D","E","F","G","H","I","J","K","<<",">>M","N","O","P","Q","R","S","T","U","V","W","X","Y","Z">>
LowerChars == <<"a","b","c","d","e","f","g","h","i","j","k","l","m","n","o","p","q","r","s","t","u","v","w","x","y","z">>
Whitespace == {" ", "\t", "\n"}

UpperSet == {UpperChars[i] : i \in 1..Len(UpperChars)}
LowerOf == [c \in UpperSet |-> LowerChars[CHOOSE i \in 1..Len(UpperChars) : UpperChars[i] = c]]

\* str.lower() of one character
LowerChar(c) == IF c \in UpperSet THEN LowerOf[c] ELSE c

\* str.lower()
Lower(s) == [i \in 1..Len(s) |-> LowerChar(s[i])]

\* Python's "a in b" on strings
IsSubstr(a, b) ==
  \E i \in 0..(Len(b) - Len(a)) : SubSeq(b, i + 1, i + Len(a)) = a

\* str.strip(chars): drops leading and trailing characters of the set
StripChars(s, chars) ==
  LET keep == {i \in 1..Len(s) : s[i] \notin chars}
  IN IF keep = {} THEN <<>>
     ELSE LET lo == CHOOSE i \in keep : \A j \in keep : i <= j
              hi == CHOOSE i \in keep : \A j \in keep : j <= i
          IN SubSeq(s, lo, hi)

\* str.strip()
Strip(s) == StripChars(s, Whitespace)

\* str.split(): the maximal runs of non-whitespace characters, in order
RECURSIVE SplitFrom(_, _, _)
SplitFrom(s, i, word) ==
  IF i > Len(s) THEN (IF word = <<>> THEN <<>> ELSE <<word>>)
  ELSE IF s[i] \in Whitespace
       THEN (IF word = <<>> THEN <<>> ELSE <<word>>) \o SplitFrom(s, i + 1, <<>>)
       ELSE SplitFrom(s, i + 1, Append(word, s[i]))

Split(s) == SplitFrom(s, 1, <<>>)

\* sep.join(parts)
RECURSIVE Join(_, _)
Join(parts, sep) ==
  IF parts = <<>> THEN <<>>
  ELSE IF Len(parts) = 1 THEN parts[1]
  ELSE parts[1] \o sep \o Join(Tail(parts), sep)

RECURSIVE Concat(_)
Concat(lists) == IF lists = <<>> THEN <<>> ELSE lists[1] \o Concat(Tail(lists))

Min(a, b) == IF a <= b THEN a ELSE b
Max(a, b) == IF a >= b THEN a ELSE b

SeqsUpTo(S, n) == UNION {[1..m -> S] : m \in 0..n}

(* ------------------------- string literals ---------------------------- *)
KW_tumor == <<"t","u","m","o","r">>
KW_hemorrhage == <<"h","e","m","o","r","r","h","a","g","e">>
KW_stroke == <<"s","t","r","o","k","e">>
KW_hydrocephalus == <<"h","y","d","r","o","c","e","p","h","a","l","u","s">>
KW_glioblastoma == <<"g","l","i","o","b","l","a","s","t","o","m","a">>
DX_glioblastoma_multiforme == <<"B","r","a","i","n"," ","b","i","o","p","s","y"," ","c","o","n","f","i","r","m","e","d"," ","g","l","i","o","b","l","a","s","t","o","m","a"," ","m","u","l","t","i","f","o","r","m","e">>
DX_astrocytoma == <<"R","e","c","u","r","r","e","n","t"," ","h","i","g","h","-","g","r","a","d","e"," ","a","s","t","r","o","c","y","t","o","m","a">>
DX_ependymoma == <<"E","p","e","n","d","y","m","o","m","a">>
DX_subarachnoid == <<"S","u","b","a","r","a","c","h","n","o","i","d"," ","h","e","m","o","r","r","h","a","g","e",","," ","a","n","e","u","r","y","s","m">>
DX_acute_stroke == <<"A","c","u","t","e"," ","S","t","r","o","k","e",","," ","H","e","m","o","r","r","h","a","g","e"," ","i","n"," ","B","a","s","a","l"," ","G","a","n","g","l","i","a">>
DX_cerebellar_avm == <<"c","e","r","e","b","e","l","l","a","r"," ","A","V","M"," ","w","i","t","h"," ","P","I","C","A"," ","a","n","e","u","r","y","s","m">>
DX_pica_infarct == <<"L","e","f","t"," ","P","I","C","A"," ","I","n","f","a","r","c","t"," ","c","o","n","f","i","r","m","e","d"," ","w","i","t","h"," ","M","R","I">>
DX_hydrocephalus == <<"N","o","n"," ","c","o","m","m","u","n","i","c","a","t","i","n","g"," ","h","y","d","r","o","c","e","p","h","a","l","u","s"," ","d","u","e"," ","t","o"," ","a","q","u","e","d","u","c","t","a","l"," ","s","t","e","n","o","s","i","s">>
DX_choroid_plexus == <<"C","h","o","r","o","i","d"," ","P","l","e","x","u","s"," ","C","a","r","c","i","n","o","m","a">>
UnknownDiagnosis == <<"U","n","k","n","o","w","n"," ","D","i","a","g","n","o","s","i","s">>
NoSimilarCasesFound == <<"N","o"," ","s","i","m","i","l","a","r"," ","c","a","s","e","s"," ","f","o","u","n","d">>
SearchFailed == <<"S","e","a","r","c","h"," ","f","a","i","l","e","d">>
MedicalImageAnalysis == <<"m","e","d","i","c","a","l"," ","i","m","a","g","e"," ","a","n","a","l","y","s","i","s">>
MedicalAnalysis == <<"m","e","d","i","c","a","l"," ","a","n","a","l","y","s","i","s">>
MedicalCaseShowing == <<"M","e","d","i","c","a","l"," ","c","a","s","e"," ","s","h","o","w","i","n","g"," ">>
RelatedFindings == <<" ","r","e","l","a","t","e","d"," ","f","i","n","d","i","n","g","s">>
SymptomsRelatedTo == <<"S","y","m","p","t","o","m","s"," ","r","e","l","a","t","e","d"," ","t","o"," ">>
Separator == <<","," ">>

(* --------------------- values of a JSON document ----------------------- *)
\* a text field: a string, null, or an absent key
Str(s) == [k |-> "str", v |-> s]
None == [k |-> "none", v |-> <<>>]
Missing == [k |-> "missing", v |-> <<>>]
\* an integer field or null
Num(n) == [k |-> "int", v |-> n]
NoNum == [k |-> "none", v |-> 0]

\* dict.get(key, default)
Get(f, default) == IF f.k = "missing" THEN Str(default) ELSE f
\* truth value of a text field
Truthy(f) == f.k = "str" /\ f.v # <<>>

(* ---------------------------- the index -------------------------------- *)
\* documents the index may hold (_source of a hit)
Docs ==
  { [u_id |-> "D1", diagnosis |-> Str(<<"S","t","r","o","k","e">>), description |-> Str(<<"s","t","r","o","k","e",","," ","o","l","d"," ","t","u","m","o","r">>),
     age |-> Num(61), sex |-> "male", symptoms |-> Str(<<"h","e","a","d","a","c","h","e">>)],
    [u_id |-> "D2", diagnosis |-> Str(<<>>), description |-> Str(<<"G","l","i","o","b","l","a","s","t","o","m","a"," ","m","a","s","s">>),
     age |-> Num(7), sex |-> "female", symptoms |-> Str(<<>>)],
    [u_id |-> "D3", diagnosis |-> Str(<<" "," ">>), description |-> Str(<<"s","t","r","o","k","e">>),
     age |-> NoNum, sex |-> "unknown", symptoms |-> Str(<<>>)],
    [u_id |-> "D4", diagnosis |-> Missing, description |-> Missing,
     age |-> NoNum, sex |-> "unknown", symptoms |-> Missing],
    [u_id |-> "D5", diagnosis |-> None, description |-> None,
     age |-> Num(40), sex |-> "male", symptoms |-> None] }

\* relevance scores (_score) of a Tier 1 hit, in thousandths
Scores == {1500, 7000}

\* query texts of a direct call of the engine
Queries ==
  { <<>>, <<"G","l","i","o","b","l","a","s","t","o","m","a">>, <<"g","l","i","o","b","l","a","s","t","o","m","a"," ","h","e","m","o","r","r","h","a","g","e">>, <<"G","L","I","O","B","L","A","S","T","O","M","A"," ","s","t","r","o","k","e">>,
    <<"s","u","s","p","e","c","t","e","d"," ","g","l","i","o","b","l","a","s","t","o","m","a">>, <<"b","r","a","i","n"," ","t","u","m","o","r">>, <<"x","y","z">>, <<"o","m","a">>, <<" ","s","t","r","o","k","e"," ","m","a","s","s"," ">> }

\* inputs of the agent: diagnosis_result (a dict, or something that is none) and keywords
DiagnosisResults ==
  { [k |-> "dict", diagnosis |-> d, findings |-> f, location |-> Str(<<>>)] :
      d \in {Missing, Str(<<"G","l","i","o","b","l","a","s","t","o","m","a">>), Str(<<"s","t","r","o","k","e">>)}, f \in {Str(<<>>), Str(<<"m","a","s","s">>)} }
  \cup { [k |-> "none", diagnosis |-> Missing, findings |-> Missing, location |-> Missing] }
KeywordInputs == { <<>>, <<"x","y","z">> }

\* what opensearch_client.search can answer to the Tier 1 query of size top_k:
\* an exception, or at most `size` hits, each a document and its relevance score
Tier1Responses(size) ==
  { [raise |-> TRUE, hits |-> <<>>] }
  \cup { [raise |-> FALSE, hits |-> h] :
           h \in SeqsUpTo([source : Docs, score : Scores], Min(size, MaxHits)) }

\* what the index can answer to a match-all read of the given size: an exception, or
\* at most `size` documents and the total count, which is 0 only without documents
MatchAllResponses(size) ==
  { [raise |-> TRUE, total |-> 0, hits |-> <<>>] }
  \cup UNION { { [raise |-> FALSE, total |-> Len(h) + more, hits |-> h] :
                   more \in IF h = <<>> THEN {0} ELSE {0, 1} } :
                 h \in SeqsUpTo(Docs, Min(size, MaxHits)) }

(* --------------------- Tier 3: synthetic fallback ---------------------- *)
Case(u, d, a, s) == [u_id |-> u, diagnosis |-> d, age |-> a, sex |-> s]

\* the keyword table, in the order the dict literal lists (and iterates) its keys
medical_cases ==
  << [keyword |-> KW_tumor, cases |->
        << Case("MPX1134", DX_glioblastoma_multiforme, 50, "male"),
           Case("MPX1694", DX_astrocytoma, 38, "male"),
           Case("MPX1420", DX_ependymoma, 32, "male") >>],
     [keyword |-> KW_hemorrhage, cases |->
        << Case("MPX1673", DX_subarachnoid, 64, "male"),
           Case("MPX1672", DX_acute_stroke, 36, "male"),
           Case("MPX2195", DX_cerebellar_avm, 38, "male") >>],
     [keyword |-> KW_stroke, cases |->
        << Case("MPX1672", DX_acute_stroke, 36, "male"),
           Case("MPX1205", DX_pica_infarct, 58, "unknown") >>],
     [keyword |-> KW_hydrocephalus, cases |->
        << Case("MPX1544", DX_hydrocephalus, 21, "female"),
           Case("MPX2077", DX_choroid_plexus, 1, "female") >>],
     [keyword |-> KW_glioblastoma, cases |->
        << Case("MPX1134", DX_glioblastoma_multiforme, 50, "male"),
           Case("MPX1184", DX_glioblastoma_multiforme, 25, "male") >>] >>

\* the cases used when no keyword matches
default_cases ==
  << Case("MPX1134", DX_glioblastoma_multiforme, 50, "male"),
     Case("MPX1673", DX_subarachnoid, 64, "male"),
     Case("MPX1420", DX_ependymoma, 32, "male") >>

\* keyword in query_lower or query_lower in keyword
KeywordMatches(keyword, query_lower) ==
  IsSubstr(keyword, query_lower) \/ IsSubstr(query_lower, keyword)

\* faulty variant: each matching list is put in front of matched_cases instead of behind it
matched_cases_Prepended(query_lower) ==
  Concat([i \in 1..Len(medical_cases) |->
            IF KeywordMatches(medical_cases[Len(medical_cases) + 1 - i].keyword, query_lower)
            THEN [j \in 1..Len(medical_cases[Len(medical_cases) + 1 - i].cases) |->
                    medical_cases[Len(medical_cases) + 1 - i].cases[
                      Len(medical_cases[Len(medical_cases) + 1 - i].cases) + 1 - j]]
            ELSE <<>>])

\* matched_cases after the loop over the table
matched_cases(query_lower) ==
  Concat([i \in 1..Len(medical_cases) |->
            IF KeywordMatches(medical_cases[i].keyword, query_lower)
            THEN medical_cases[i].cases ELSE <<>>])

\* faulty variant: the similarity is not held at 0.3 from below
FallbackSimilarity_NoFloor(i) == FallbackTopSimilarity - i * FallbackStep

\* max(0.3, 0.8 - i * 0.1) for the 0-based rank i
FallbackSimilarity(i) == Max(FallbackFloor, FallbackTopSimilarity - i * FallbackStep)

\* _generate_fallback_results(query_text, top_k)
GenerateFallbackResults(q, k) ==
  LET query_lower == Lower(q)
      m == matched_cases(query_lower)
      chosen == IF m = <<>> THEN default_cases ELSE m
      cut == SubSeq(chosen, 1, Min(k, Len(chosen)))
  IN [i \in 1..Len(cut) |->
        [u_id |-> cut[i].u_id,
         diagnosis |-> cut[i].diagnosis,
         description |-> Str(MedicalCaseShowing \o Lower(cut[i].diagnosis) \o RelatedFindings),
         age |-> Num(cut[i].age),
         sex |-> cut[i].sex,
         symptoms |-> Str(SymptomsRelatedTo \o cut[i].diagnosis),
         similarity_score |-> FallbackSimilarity(i - 1)]]

(* ------------------------- Tiers 1 and 2 ------------------------------- *)
\* faulty variant: the blank check after the "or" is left out
SafeDiagnosis_NoStrip(source) ==
  LET d0 == Get(source.diagnosis, <<>>)
  IN IF Truthy(d0) THEN d0.v ELSE UnknownDiagnosis

\* source.get('diagnosis', '') or 'Unknown Diagnosis', then the blank check
SafeDiagnosis(source) ==
  LET d0 == Get(source.diagnosis, <<>>)
      d1 == IF Truthy(d0) THEN d0.v ELSE UnknownDiagnosis
  IN IF d1 = <<>> \/ Strip(d1) = <<>> THEN UnknownDiagnosis ELSE d1

\* faulty variant: the score is divided but not capped
Tier1Similarity_NoCap(score) == score \div ScoreDivisor

\* min(1.0, hit['_score'] / 5.0)
Tier1Similarity(score) == Min(One, score \div ScoreDivisor)

\* the dict appended to results for one hit
ResultOf(source, diagnosis, similarity) ==
  [u_id |-> source.u_id,
   diagnosis |-> diagnosis,
   description |-> Get(source.description, <<>>),
   age |-> source.age,
   sex |-> source.sex,
   symptoms |-> Get(source.symptoms, <<>>),
   similarity_score |-> similarity]

\* results.sort(key=similarity_score, reverse=True): stable, descending
RECURSIVE InsertByScore(_, _)
InsertByScore(x, sorted) ==
  IF sorted = <<>> THEN <<x>>
  ELSE IF sorted[Len(sorted)].similarity_score >= x.similarity_score
       THEN Append(sorted, x)
       ELSE Append(InsertByScore(x, SubSeq(sorted, 1, Len(sorted) - 1)), sorted[Len(sorted)])

\* faulty variant: the list is left in the order the hits were read
SortByScoreDesc_Unsorted(s) == s

RECURSIVE SortByScoreDesc(_)
SortByScoreDesc(s) ==
  IF s = <<>> THEN <<>>
  ELSE InsertByScore(s[Len(s)], SortByScoreDesc(SubSeq(s, 1, Len(s) - 1)))

\* faulty variant: the Tier 1 hits are not collected, so the search goes on to Tier 2
Tier1Results_NotCollected(hits) == <<>>

\* the Tier 1 loop over response['hits']['hits'] and the sort after it
Tier1Results(hits) ==
  SortByScoreDesc([i \in 1..Len(hits) |->
     ResultOf(hits[i].source, SafeDiagnosis(hits[i].source), Tier1Similarity(hits[i].score))])

\* match_found or query_lower in diagnosis_lower or query_lower in description_lower
IsCandidate(query_lower, query_words, diagnosis_lower, description_lower) ==
  \/ \E i \in 1..Len(query_words) :
        IsSubstr(query_words[i], diagnosis_lower) \/ IsSubstr(query_words[i], description_lower)
  \/ IsSubstr(query_lower, diagnosis_lower)
  \/ IsSubstr(query_lower, description_lower)

\* what the loop over query_words adds to the base score
RECURSIVE WordBonus(_, _, _)
WordBonus(query_words, diagnosis_lower, description_lower) ==
  IF query_words = <<>> THEN 0
  ELSE (IF IsSubstr(query_words[1], diagnosis_lower) THEN DiagnosisWordBonus
        ELSE IF IsSubstr(query_words[1], description_lower) THEN DescriptionWordBonus
        ELSE 0)
       + WordBonus(Tail(query_words), diagnosis_lower, description_lower)

\* similarity = min(1.0, 0.3 + bonuses)
Tier2Similarity(query_words, diagnosis_lower, description_lower) ==
  Min(One, BaseSimilarity + WordBonus(query_words, diagnosis_lower, description_lower))

\* one pass of the Tier 2 loop on a document whose description is a string:
\* results after the candidate test and the append
Tier2Keep(source, diagnosis, description, acc, q) ==
  LET query_lower == Lower(q)
      diagnosis_lower == Lower(diagnosis)
      description_lower == Lower(description)
      query_words == Split(query_lower)
  IN IF IsCandidate(query_lower, query_words, diagnosis_lower, description_lower)
     THEN Append(acc, ResultOf(source, diagnosis,
                   Tier2Similarity(query_words, diagnosis_lower, description_lower)))
     ELSE acc

\* faulty variant: the loop has no "if len(results) >= top_k: break"
RECURSIVE Tier2Filter_NoLimit(_, _, _, _, _)
Tier2Filter_NoLimit(hits, i, acc, q, k) ==
  IF i > Len(hits) THEN [raised |-> FALSE, results |-> acc]
  ELSE LET description == Get(hits[i].description, <<>>)
       IN IF description.k # "str" THEN [raised |-> TRUE, results |-> acc]
          ELSE Tier2Filter_NoLimit(hits, i + 1,
                 Tier2Keep(hits[i], SafeDiagnosis(hits[i]), description.v, acc, q), q, k)

\* the Tier 2 loop over fallback_response['hits']['hits'] from hit i on; a null
\* description makes .lower() raise, which leaves the loop
RECURSIVE Tier2Filter(_, _, _, _, _)
Tier2Filter(hits, i, acc, q, k) ==
  IF i > Len(hits) THEN [raised |-> FALSE, results |-> acc]
  ELSE LET source == hits[i]
           diagnosis == SafeDiagnosis(source)
           description == Get(source.description, <<>>)
       IN IF description.k # "str" THEN [raised |-> TRUE, results |-> acc]
          ELSE LET acc2 == Tier2Keep(source, diagnosis, description.v, acc, q)
               IN IF Len(acc2) >= k THEN [raised |-> FALSE, results |-> acc2]
                  ELSE Tier2Filter(hits, i + 1, acc2, q, k)

\* fallback_response before the first successful read
NoResponse == [set |-> FALSE, total |-> 0, hits |-> <<>>]

\* faulty variant: the outer except clause re-raises
OnSearchException_Reraise(q, k) == [raised |-> TRUE, results |-> <<>>, tier |-> 3]

\* the outer except clause: return self._generate_fallback_results(query_text, top_k)
OnSearchException(q, k) ==
  [raised |-> FALSE, results |-> GenerateFallbackResults(q, k), tier |-> 3]

\* faulty variant: the final "if not results" fallback to Tier 3 is missing
AfterReads_NoTier3(fr, q, k) ==
  IF ~fr.set THEN [raised |-> FALSE, results |-> <<>>, tier |-> 0]
  ELSE LET f == Tier2Filter(fr.hits, 1, <<>>, q, k)
       IN IF f.raised THEN OnSearchException(q, k)
          ELSE [raised |-> FALSE, results |-> SortByScoreDesc(f.results), tier |-> 2]

\* the code after the retry loop: the early return, the filter, the sort, Tier 3
AfterReads(fr, q, k) ==
  IF ~fr.set THEN [raised |-> FALSE, results |-> <<>>, tier |-> 0]
  ELSE LET f == Tier2Filter(fr.hits, 1, <<>>, q, k)
       IN IF f.raised THEN OnSearchException(q, k)
          ELSE IF f.results = <<>>
               THEN [raised |-> FALSE, results |-> GenerateFallbackResults(q, k), tier |-> 3]
               ELSE [raised |-> FALSE, results |-> SortByScoreDesc(f.results), tier |-> 2]

(* ------------------------ SimilarSearchAgent --------------------------- *)
\* faulty variant: the joined text is not stripped
ComposeQuery_NoStrip(dr, kw) ==
  LET part(f) == IF Truthy(Get(f, <<>>)) THEN <<Get(f, <<>>).v>> ELSE <<>>
      search_components ==
        part(dr.diagnosis) \o part(dr.findings) \o part(dr.location)
        \o (IF kw # <<>> THEN <<kw>> ELSE <<>>)
  IN Join(search_components, Separator)

\* search_components joined by ', ' and stripped of ',' and ' ' at both ends
ComposeQuery(dr, kw) ==
  LET part(f) == IF Truthy(Get(f, <<>>)) THEN <<Get(f, <<>>).v>> ELSE <<>>
      search_components ==
        part(dr.diagnosis) \o part(dr.findings) \o part(dr.location)
        \o (IF kw # <<>> THEN <<kw>> ELSE <<>>)
  IN StripChars(Join(search_components, Separator), {",", " "})

\* formatted_case
FormatCase(case) ==
  [case_id |-> case.u_id,
   diagnosis |-> case.diagnosis,
   description |-> case.description,
   similarity_score |-> case.similarity_score,
   patient_info |-> [age |-> case.age, sex |-> case.sex]]

FormatCases(cases) == [i \in 1..Len(cases) |-> FormatCase(cases[i])]

\* sum(1 for case in formatted_cases if case['diagnosis'] == x)
DiagnosisCount(cases, x) == Cardinality({i \in 1..Len(cases) : cases[i].diagnosis = x})

\* what max(set(diagnoses), key=count) can return: max keeps the first maximal
\* element in the set's iteration order, and the iteration order of a set of
\* strings depends on their hashes (randomised per process), so any diagnosis
\* of maximal count can be the one returned
MostCommonCandidates(cases) ==
  LET diagnoses == {cases[i].diagnosis : i \in 1..Len(cases)}
  IN {d \in diagnoses : \A e \in diagnoses : DiagnosisCount(cases, d) >= DiagnosisCount(cases, e)}

RECURSIVE SumScores(_)
SumScores(cases) ==
  IF cases = <<>> THEN 0 ELSE cases[1].similarity_score + SumScores(Tail(cases))

\* round(n / d) to the nearest integer, ties to even
RoundHalfEven(n, d) ==
  LET q == n \div d
      r == n % d
  IN IF 2 * r < d THEN q
     ELSE IF 2 * r > d THEN q + 1
     ELSE IF q % 2 = 0 THEN q ELSE q + 1

\* faulty variant: the sum is divided by the number of cases asked for
AverageSimilarity_FixedDivisor(cases) ==
  IF cases = <<>> THEN 0 ELSE RoundHalfEven(SumScores(cases), AgentTopK)

\* round(sum(scores) / len(formatted_cases), 3), in thousandths
AverageSimilarity(cases) ==
  IF cases = <<>> THEN 0 ELSE RoundHalfEven(SumScores(cases), Len(cases))

\* the dict returned by the try block; mc is the value max() returned
SuccessEnvelope(cases, q, mc) ==
  [success |-> TRUE,
   error |-> FALSE,
   similar_cases |-> cases,
   total_found |-> Len(cases),
   average_similarity |-> AverageSimilarity(cases),
   most_common_diagnosis |-> IF cases = <<>> THEN NoSimilarCasesFound ELSE mc,
   search_query |-> Str(q)]

\* the dict returned by the except clause
FailureEnvelope ==
  [success |-> FALSE,
   error |-> TRUE,
   similar_cases |-> <<>>,
   total_found |-> 0,
   average_similarity |-> 0,
   most_common_diagnosis |-> SearchFailed,
   search_query |-> Missing]

\* the agent's except clause: the exception is consumed and the envelope returned
OnAgentException == [raised |-> FALSE, envelope |-> FailureEnvelope]

NoEnvelope ==
  [success |-> FALSE, error |-> FALSE, similar_cases |-> <<>>, total_found |-> 0,
   average_similarity |-> 0, most_common_diagnosis |-> <<>>, search_query |-> Missing]

NoDiagnosisResult ==
  [k |-> "none", diagnosis |-> Missing, findings |-> Missing, location |-> Missing]

(* ------------------------------ state ---------------------------------- *)
VARIABLES
  pc,                \* "idle", "tier1", "tier2", "returned" (engine), "done" (agent)
  caller,            \* "none", "direct" (engine called directly) or "agent"
  diagnosis_result,  \* the agent's first argument
  keywords,          \* the agent's second argument
  query_text,        \* the engine's query_text
  top_k,             \* the engine's top_k
  tier1,             \* what the Tier 1 search did: "none", "raise", "nohits", "hits"
  response,          \* the hits of the Tier 1 response
  attempt,           \* loop variable of the retry loop
  fallback_response, \* the last successful match-all response
  reads,             \* outcome of each match-all read so far
  sleeps,            \* number of time.sleep(2) calls so far
  results,           \* the list the engine returns
  tier,              \* the tier that produced results (0: the early return)
  engine_raised,     \* whether the engine raised to its caller
  envelope,          \* the dict the agent returns
  agent_raised,      \* whether the agent raised to its caller
  emb_op,            \* "none", "multimodal" or "text": the embedding method called
  emb_image,         \* image_data: "bytes", "str" (already base64) or "none"
  emb_text,          \* the text argument
  emb_calls,         \* the invoke_model calls made: model id, inputText and the answer
  emb_result,        \* the vector returned
  emb_raised,        \* whether the method raised to its caller
  ing_pc,            \* load_and_index_data: "idle", "sweep" or "returned"
  medical_data,      \* the records of the corpus file, in file order
  listing,           \* the keys list_objects_v2 answered, in its order
  patient_images,    \* the dict of selected images, in insertion order
  ing_pos,           \* position of the loop in patient_images
  case_data,         \* the loop's local: 0 (unbound) or the position of a record
  downloads,         \* the keys passed to get_object
  submitted,         \* the documents passed to opensearch_client.index
  indexed_count,     \* the counter of the loop
  outcomes,          \* per pass: "indexed", "skipped" or "aborted"
  ing_exit,          \* "none", "early", "aborted" or "complete"
  ing_result,        \* the value returned
  parts_pc,          \* "idle", "composed" or "answered"
  parts_input,       \* diagnosis_result and keywords
  parts_query,       \* search_query
  parts_envelope,    \* the dict returned
  fb_pc,             \* _generate_fallback_results by itself: "idle" or "generated"
  fb_query,          \* its query_text
  fb_top_k,          \* its top_k
  fb_results,        \* the list it returns
  al_pc,             \* AlertSystemAgent: "new", "ready" or "returned"
  al_config,         \* Config.ENABLE_EMAIL_ALERTS and Config.DOCTOR_EMAIL
  ses_client,        \* self.ses_client: "client" or "none"
  al_input,          \* diagnosis_result
  al_emails,         \* the send_email calls made: the address and what SES did
  al_result,         \* alert_result
  al_raised,         \* whether evaluate_alert_need raised to its caller
  cx_index,          \* interleaved searches: what the index holds
  cx_ops,            \* the operations the searches called on opensearch_client
  cx_call,           \* per call: its position, its arguments and the list returned
  cx_local           \* per frame: the locals of search_similar_cases

search_vars ==
  <<pc, caller, diagnosis_result, keywords, query_text, top_k, tier1, response, attempt,
    fallback_response, reads, sleeps, results, tier, engine_raised, envelope, agent_raised>>

embed_vars == <<emb_op, emb_image, emb_text, emb_calls, emb_result, emb_raised>>

index_vars ==
  <<ing_pc, medical_data, listing, patient_images, ing_pos, case_data, downloads,
    submitted, indexed_count, outcomes, ing_exit, ing_result>>

parts_vars == <<parts_pc, parts_input, parts_query, parts_envelope>>

fallback_vars == <<fb_pc, fb_query, fb_top_k, fb_results>>

alert_vars == <<al_pc, al_config, ses_client, al_input, al_emails, al_result, al_raised>>

conc_vars == <<cx_index, cx_ops, cx_call, cx_local>>

vars == <<search_vars, embed_vars, index_vars, parts_vars, fallback_vars, alert_vars, conc_vars>>

SearchInit ==
  /\ pc = "idle"
  /\ caller = "none"
  /\ diagnosis_result = NoDiagnosisResult
  /\ keywords = <<>>
  /\ query_text = <<>>
  /\ top_k = 0
  /\ tier1 = "none"
  /\ response = <<>>
  /\ attempt = 0
  /\ fallback_response = NoResponse
  /\ reads = <<>>
  /\ sleeps = 0
  /\ results = <<>>
  /\ tier = 0
  /\ engine_raised = FALSE
  /\ envelope = NoEnvelope
  /\ agent_raised = FALSE

(* ----------------------------- actions --------------------------------- *)
\* opensearch_multimodal.search_similar_cases(q, top_k=k) called directly
EngineCall(q, k) ==
  /\ pc = "idle"
  /\ pc' = "tier1"
  /\ caller' = "direct"
  /\ query_text' = q
  /\ top_k' = k
  /\ UNCHANGED <<diagnosis_result, keywords, tier1, response, attempt, fallback_response,
                 reads, sleeps, results, tier, engine_raised, envelope, agent_raised>>
  /\ UNCHANGED <<embed_vars, index_vars, parts_vars, fallback_vars, alert_vars, conc_vars>>

\* SimilarSearchAgent.search_similar_cases(dr, kw) up to the call of the engine;
\* dr.get raises when dr is no dict, and the except clause answers
AgentCall(dr, kw) ==
  /\ pc = "idle"
  /\ caller' = "agent"
  /\ diagnosis_result' = dr
  /\ keywords' = kw
  /\ IF dr.k = "dict"
     THEN /\ pc' = "tier1"
          /\ query_text' = ComposeQuery(dr, kw)
          /\ top_k' = AgentTopK
          /\ UNCHANGED <<envelope, agent_raised>>
     ELSE /\ pc' = "done"
          /\ envelope' = OnAgentException.envelope
          /\ agent_raised' = OnAgentException.raised
          /\ UNCHANGED <<query_text, top_k>>
  /\ UNCHANGED <<tier1, response, attempt, fallback_response, reads, sleeps, results,
                 tier, engine_raised>>
  /\ UNCHANGED <<embed_vars, index_vars, parts_vars, fallback_vars, alert_vars, conc_vars>>

\* the Tier 1 query and the code up to the retry loop
Tier1Search ==
  /\ pc = "tier1"
  /\ \E r \in Tier1Responses(top_k) :
       LET found == Tier1Results(r.hits)
           exc == OnSearchException(query_text, top_k)
       IN /\ tier1' = IF r.raise THEN "raise" ELSE IF found = <<>> THEN "nohits" ELSE "hits"
          /\ response' = r.hits
          /\ IF r.raise
             THEN /\ pc' = "returned"
                  /\ results' = exc.results
                  /\ tier' = exc.tier
                  /\ engine_raised' = exc.raised
             ELSE IF found # <<>>
             THEN /\ pc' = "returned"
                  /\ results' = found
                  /\ tier' = 1
                  /\ UNCHANGED engine_raised
             ELSE /\ pc' = "tier2"
                  /\ UNCHANGED <<results, tier, engine_raised>>
  /\ UNCHANGED <<caller, diagnosis_result, keywords, query_text, top_k, attempt,
                 fallback_response, reads, sleeps, envelope, agent_raised>>
  /\ UNCHANGED <<embed_vars, index_vars, parts_vars, fallback_vars, alert_vars, conc_vars>>

\* one pass of "for attempt in range(3)"; the pass that ends the loop also runs
\* the code after it, up to the return
Tier2Read ==
  /\ pc = "tier2"
  /\ attempt < MaxReadAttempts
  /\ \E r \in MatchAllResponses(2 * top_k) :
       LET fr == IF r.raise THEN fallback_response
                 ELSE [set |-> TRUE, total |-> r.total, hits |-> r.hits]
           break == ~r.raise /\ r.total > 0
           slept == IF r.raise THEN attempt < MaxReadAttempts - 1 ELSE ~break
           last == break \/ attempt = MaxReadAttempts - 1
           out == AfterReads(fr, query_text, top_k)
       IN /\ fallback_response' = fr
          /\ reads' = Append(reads, IF r.raise THEN "raise"
                                    ELSE IF r.total > 0 THEN "docs" ELSE "empty")
          /\ sleeps' = sleeps + (IF slept THEN 1 ELSE 0)
          /\ attempt' = attempt + 1
          /\ IF last
             THEN /\ pc' = "returned"
                  /\ results' = out.results
                  /\ tier' = out.tier
                  /\ engine_raised' = out.raised
             ELSE /\ pc' = "tier2"
                  /\ UNCHANGED <<results, tier, engine_raised>>
  /\ UNCHANGED <<caller, diagnosis_result, keywords, query_text, top_k, tier1, response,
                 envelope, agent_raised>>
  /\ UNCHANGED <<embed_vars, index_vars, parts_vars, fallback_vars, alert_vars, conc_vars>>

\* the agent after the engine's call: formatting, statistics and the envelope
AgentFinish ==
  /\ pc = "returned"
  /\ caller = "agent"
  /\ pc' = "done"
  /\ LET formatted_cases == FormatCases(results)
     IN IF engine_raised
        THEN /\ envelope' = OnAgentException.envelope
             /\ agent_raised' = OnAgentException.raised
        ELSE /\ \E mc \in (IF formatted_cases = <<>> THEN {NoSimilarCasesFound}
                          ELSE MostCommonCandidates(formatted_cases)) :
                  envelope' = SuccessEnvelope(formatted_cases, query_text, mc)
             /\ UNCHANGED agent_raised
  /\ UNCHANGED <<caller, diagnosis_result, keywords, query_text, top_k, tier1, response,
                 attempt, fallback_response, reads, sleeps, results, tier, engine_raised>>
  /\ UNCHANGED <<embed_vars, index_vars, parts_vars, fallback_vars, alert_vars, conc_vars>>

SearchNext ==
  \/ \E q \in Queries, k \in 1..MaxTopK : EngineCall(q, k)
  \/ \E dr \in DiagnosisResults, kw \in KeywordInputs : AgentCall(dr, kw)
  \/ Tier1Search
  \/ Tier2Read
  \/ AgentFinish

(* ------------------------ embedding generation ------------------------- *)
\* a text argument that is no string and is truthy (strip() raises on it)
NotAString == [k |-> "other", v |-> <<>>]

TextInputs == {None, Str(<<>>), Str(<<" ", "\t">>), Str(<<"c","t"," ","s","c","a","n">>), Str(<<" ","m","a","s","s"," ">>), NotAString}
ImageInputs == {"bytes", "str"}

\* lengths of the vector the embedding service may return
ServiceLens == (0..MaxExtra) \cup ((EmbeddingDim - MaxExtra)..(EmbeddingDim + MaxExtra))

\* an answer of bedrock_client.invoke_model: an exception or a vector of some length
ServiceOutcomes ==
  {[fail |-> TRUE, len |-> 0]} \cup {[fail |-> FALSE, len |-> n] : n \in ServiceLens}

\* the vector of length n the service returns: no element is 0
ServiceVector(n) == [i \in 1..n |-> 1 + (i % 7)]

\* [0.0] * 1024
ZeroVector == [i \in 1..EmbeddingDim |-> 0]

\* the padding / truncation of get_text_embedding
PadOrTruncate(embedding) ==
  IF Len(embedding) < EmbeddingDim
  THEN embedding \o [i \in 1..(EmbeddingDim - Len(embedding)) |-> 0]
  ELSE IF Len(embedding) > EmbeddingDim
  THEN SubSeq(embedding, 1, EmbeddingDim)
  ELSE embedding

\* faulty variant: only the empty string counts as blank
IsBlankText_NoStrip(text) == ~Truthy(text)

\* "not text or text.strip() == ''"; strip() raises on a value that is no string
IsBlankText(text) == ~Truthy(text) \/ Strip(text.v) = <<>>

\* get_text_embedding(text), the service answering `out`:
\* the calls made, the value returned, and whether it raised
GetTextEmbeddingResult(text, out) ==
  IF text.k = "other"
  THEN [raised |-> FALSE, result |-> ZeroVector, calls |-> <<>>]
  ELSE LET sent == IF IsBlankText(text) THEN MedicalAnalysis ELSE text.v
           call == [model |-> "amazon.titan-embed-text-v1", text |-> sent, fail |-> out.fail, len |-> out.len]
       IN IF out.fail
          THEN [raised |-> FALSE, result |-> ZeroVector, calls |-> <<call>>]
          ELSE [raised |-> FALSE, result |-> PadOrTruncate(ServiceVector(out.len)),
                calls |-> <<call>>]

\* get_multimodal_embedding(image_data, text_description), the multimodal model
\* answering `out` and the text model `tout` if it comes to that
GetMultimodalEmbeddingResult(image, text, out, tout) ==
  IF text.k = "other"
  THEN GetTextEmbeddingResult(text, tout)
  ELSE LET sent == IF IsBlankText(text) THEN MedicalImageAnalysis ELSE text.v
           call == [model |-> "amazon.titan-embed-image-v1", text |-> sent, fail |-> out.fail, len |-> out.len]
       IN IF out.fail
          THEN LET t == GetTextEmbeddingResult(Str(sent), tout)
               IN [raised |-> t.raised, result |-> t.result, calls |-> <<call>> \o t.calls]
          ELSE [raised |-> FALSE, result |-> ServiceVector(out.len), calls |-> <<call>>]

EmbedInit ==
  /\ emb_op = "none"
  /\ emb_image = "none"
  /\ emb_text = None
  /\ emb_calls = <<>>
  /\ emb_result = <<>>
  /\ emb_raised = FALSE

GetMultimodalEmbedding(image, text) ==
  /\ emb_op = "none"
  /\ emb_op' = "multimodal"
  /\ emb_image' = image
  /\ emb_text' = text
  /\ \E out \in ServiceOutcomes, tout \in ServiceOutcomes :
       LET r == GetMultimodalEmbeddingResult(image, text, out, tout)
       IN /\ emb_calls' = r.calls
          /\ emb_result' = r.result
          /\ emb_raised' = r.raised
  /\ UNCHANGED <<search_vars, index_vars, parts_vars, fallback_vars, alert_vars, conc_vars>>

GetTextEmbedding(text) ==
  /\ emb_op = "none"
  /\ emb_op' = "text"
  /\ emb_text' = text
  /\ \E tout \in ServiceOutcomes :
       LET r == GetTextEmbeddingResult(text, tout)
       IN /\ emb_calls' = r.calls
          /\ emb_result' = r.result
          /\ emb_raised' = r.raised
  /\ UNCHANGED <<emb_image>>
  /\ UNCHANGED <<search_vars, index_vars, parts_vars, fallback_vars, alert_vars, conc_vars>>

EmbedNext ==
  \/ \E image \in ImageInputs, text \in TextInputs : GetMultimodalEmbedding(image, text)
  \/ \E text \in TextInputs : GetTextEmbedding(text)

(* ------------------- ingestion: one corpus record ---------------------- *)
DigitChars == <<"0","1","2","3","4","5","6","7","8","9">>
DigitSet == {DigitChars[i] : i \in 1..Len(DigitChars)}
DigitValue == [c \in DigitSet |-> (CHOOSE i \in 1..Len(DigitChars) : DigitChars[i] = c) - 1]

\* int() of a string of digits
RECURSIVE ParseInt(_)
ParseInt(s) ==
  IF s = <<>> THEN 0
  ELSE 10 * ParseInt(SubSeq(s, 1, Len(s) - 1)) + DigitValue[s[Len(s)]]

\* \w of the regular expressions: letters, digits and the underscore
IsWordChar(c) ==
  c \in UpperSet \cup {LowerChars[i] : i \in 1..Len(LowerChars)} \cup DigitSet \cup {"_"}

\* the text has word w at position i
HasAt(s, i, w) == i >= 1 /\ i + Len(w) - 1 <= Len(s) /\ SubSeq(s, i, i + Len(w) - 1) = w

\* first position >= i that does not hold whitespace (\s*)
RECURSIVE SkipSpace(_, _)
SkipSpace(s, i) == IF i <= Len(s) /\ s[i] \in Whitespace THEN SkipSpace(s, i + 1) ELSE i

\* first position >= i that does not hold a digit (\d+, greedy)
RECURSIVE SkipDigits(_, _)
SkipDigits(s, i) == IF i <= Len(s) /\ s[i] \in DigitSet THEN SkipDigits(s, i + 1) ELSE i

\* re.search(r'\b(?:w1|w2|..)\b', text): some alternative stands as a whole word
HasWord(s, words) ==
  \E w \in words : \E i \in 1..Len(s) :
     /\ HasAt(s, i, w)
     /\ (i = 1 \/ ~IsWordChar(s[i - 1]))
     /\ (i + Len(w) > Len(s) \/ ~IsWordChar(s[i + Len(w)]))

AgeUnits == {<<"y","e","a","r">>, <<"m","o","n","t","h">>}

\* r'(\d+)\s*(?:unit|..)\s*old' matched at position i of the lower-cased text:
\* the units for which it matches (the text is matched ignoring case)
AgeUnitsAt(s, i, units) ==
  IF ~(i <= Len(s) /\ s[i] \in DigitSet) THEN {}
  ELSE LET j == SkipSpace(s, SkipDigits(s, i))
       IN {w \in units : HasAt(s, j, w) /\ HasAt(s, SkipSpace(s, j + Len(w)), <<"o","l","d">>)}

\* re.search of the age pattern: the leftmost match, as
\* [found, number (group 1), month ('month' in group 0)]
AgeSearch(text, units) ==
  LET s == Lower(text)
      starts == {i \in 1..Len(s) : AgeUnitsAt(s, i, units) # {}}
  IN IF starts = {} THEN [found |-> FALSE, number |-> 0, month |-> FALSE]
     ELSE LET i == CHOOSE a \in starts : \A b \in starts : a <= b
              w == CHOOSE u \in AgeUnitsAt(s, i, units) : TRUE
          IN [found |-> TRUE,
              number |-> ParseInt(SubSeq(s, i, SkipDigits(s, i) - 1)),
              month |-> IsSubstr(<<"m","o","n","t","h">>, w)]

\* the values of age along the way: None, an int or a str
AgeNone == [k |-> "none", n |-> 0, s |-> <<>>]
AgeInt(n) == [k |-> "int", n |-> n, s |-> <<>>]
AgeStr(s) == [k |-> "str", n |-> 0, s |-> s]

\* "not age"
AgeFalsy(a) == a.k = "none" \/ (a.k = "int" /\ a.n = 0) \/ (a.k = "str" /\ a.s = <<>>)

\* lines 304-307: a string of digits becomes an int, 'N/A' becomes None
NormalizeAge(a) ==
  LET IsDigits(s) == s # <<>> /\ \A i \in 1..Len(s) : s[i] \in DigitSet
  IN
  IF a.k = "str" /\ IsDigits(a.s) THEN AgeInt(ParseInt(a.s))
  ELSE IF a.k = "str" /\ a.s = <<"N","/","A">> THEN AgeNone
  ELSE a

\* lines 313-321: the age found in the history text, else the age as it was
AgeFromHistory(age, history) ==
  LET m == AgeSearch(history, AgeUnits)
  IN IF ~m.found THEN age
     ELSE IF m.month THEN AgeInt(m.number \div MonthsPerYear)
     ELSE AgeInt(m.number)

\* lines 323-327: the sex found in the history text, else the sex as it was
SexFromHistory(sex, history) ==
  IF HasWord(Lower(history), {<<"m","a","l","e">>, <<"m","a","n">>}) THEN Str(<<"m","a","l","e">>)
  ELSE IF HasWord(Lower(history), {<<"f","e","m","a","l","e">>, <<"w","o","m","a","n">>, <<"g","i","r","l">>}) THEN Str(<<"f","e","m","a","l","e">>)
  ELSE sex

\* Python's "a or b"
OrElse(a, b) == IF Truthy(a) THEN a ELSE b

\* the sections of a corpus record; k tells a mapping from a missing section
\* and from a value that is no mapping (a string, a list, null)
CaseSection(diagnosis, title, findings, history) ==
  [k |-> "dict", diagnosis |-> diagnosis, title |-> title, findings |-> findings,
   discussion |-> Missing, history |-> history, exam |-> Missing]
TopicSection(title) == [title |-> title, disease_discussion |-> Missing]
DescriptionSection(caption, age, sex) == [caption |-> caption, age |-> age, sex |-> sex]

\* one entry of medical_data
CaseData(u_id, case, topic, desc, diagnosis) ==
  [u_id |-> u_id, case |-> case, topic |-> topic, desc |-> desc,
   description |-> Missing, diagnosis |-> diagnosis]

\* lines 267-274
DescriptionOf(cd) ==
  OrElse(Get(cd.desc.caption, <<>>),
  OrElse(Get(cd.case.findings, <<>>),
  OrElse(Get(cd.case.discussion, <<>>),
  OrElse(Get(cd.case.history, <<>>),
  OrElse(Get(cd.topic.disease_discussion, <<>>),
         Get(cd.description, <<>>))))))

\* lines 277-282
DiagnosisWaterfall(cd) ==
  OrElse(Get(cd.case.diagnosis, <<>>),
  OrElse(Get(cd.case.title, <<>>),
  OrElse(Get(cd.topic.title, <<>>),
         Get(cd.diagnosis, <<>>))))

\* lines 288-297: the label read off the caption
CaptionLabel(caption) ==
  LET c == Lower(caption)
  IN IF IsSubstr(KW_hemorrhage, c) THEN <<"H","e","m","o","r","r","h","a","g","e">>
     ELSE IF IsSubstr(KW_hydrocephalus, c) THEN <<"H","y","d","r","o","c","e","p","h","a","l","u","s">>
     ELSE IF IsSubstr(KW_stroke, c) THEN <<"S","t","r","o","k","e">>
     ELSE IF IsSubstr(KW_tumor, c) \/ IsSubstr(<<"m","a","s","s">>, c) THEN <<"B","r","a","i","n"," ","T","u","m","o","r">>
     ELSE UnknownDiagnosis

\* line 285: "not diagnosis or diagnosis.strip() == ''"
DiagnosisIsBlank(d) == ~Truthy(d) \/ Strip(d.v) = <<>>

NoDocument ==
  [u_id |-> <<>>, image_path |-> <<>>, description |-> None, diagnosis |-> <<>>,
   symptoms |-> None, age |-> AgeNone, sex |-> None]

\* faulty variant: the waterfall's value is kept when it is blank
AssembleDiagnosis_KeepBlank(cd) ==
  LET d == DiagnosisWaterfall(cd) IN IF d.k = "str" THEN d.v ELSE <<>>

\* lines 277-297: the diagnosis of the document (the caption is a string here)
AssembleDiagnosis(cd) ==
  LET d == DiagnosisWaterfall(cd)
  IN IF DiagnosisIsBlank(d) THEN CaptionLabel(Get(cd.desc.caption, <<>>).v) ELSE d.v

\* lines 259-347: the document built from one record, or the raise on the way
\* (a Case section that is no mapping has no .get; a null caption has no .lower)
BuildDocument(cd, u_id, image_key) ==
  IF cd.case.k = "other" THEN [raised |-> TRUE, doc |-> NoDocument]
  ELSE IF DiagnosisIsBlank(DiagnosisWaterfall(cd)) /\ Get(cd.desc.caption, <<>>).k # "str"
  THEN [raised |-> TRUE, doc |-> NoDocument]
  ELSE
    LET age0 == NormalizeAge(cd.desc.age)
        sex0 == IF cd.desc.sex.k = "missing" THEN None ELSE cd.desc.sex
        history == Get(cd.case.history, <<>>)
        look == (AgeFalsy(age0) \/ ~Truthy(sex0)) /\ Truthy(history)
        age == IF look /\ AgeFalsy(age0) THEN AgeFromHistory(age0, history.v) ELSE age0
        sex == IF look /\ ~Truthy(sex0) THEN SexFromHistory(sex0, history.v) ELSE sex0
    IN [raised |-> FALSE,
        doc |-> [u_id |-> u_id, image_path |-> image_key,
                 description |-> DescriptionOf(cd),
                 diagnosis |-> AssembleDiagnosis(cd),
                 symptoms |-> OrElse(Get(cd.case.exam, <<>>), Get(cd.case.findings, <<>>)),
                 age |-> age, sex |-> sex]]

(* ------------------ ingestion: the records of the corpus --------------- *)
\* single records: some differ in the fields the diagnosis is taken from,
\* the others in the fields age and sex are taken from
Records ==
  { CaseData(<<"R">>, CaseSection(cdx, title, Missing, Missing), TopicSection(ttitle),
             DescriptionSection(caption, AgeNone, Missing), legacy) :
      cdx \in {Missing, Str(<<>>), Str(<<" "," ">>), Str(<<"G","l","i","o","m","a">>)},
      title \in {Missing, Str(<<"M","a","s","s"," ","l","e","s","i","o","n">>)},
      ttitle \in {Missing, None},
      legacy \in {Missing, Str(<<" ", "\t">>)},
      caption \in {Missing, None, Str(<<"L","a","r","g","e"," ","H","e","m","o","r","r","h","a","g","e"," ","w","i","t","h"," ","m","a","s","s"," ","e","f","f","e","c","t">>),
                   Str(<<"h","y","d","r","o","c","e","p","h","a","l","u","s"," ","a","f","t","e","r"," ","S","T","R","O","K","E">>), Str(<<"o","l","d"," ","s","t","r","o","k","e",","," ","t","u","m","o","r">>),
                   Str(<<"M","a","s","s"," ","i","n"," ","l","e","f","t"," ","l","o","b","e">>), Str(<<"n","o","r","m","a","l"," ","s","t","u","d","y">>)} }
  \cup
  { CaseData(<<"R">>, CaseSection(Str(<<"G","l","i","o","m","a">>), Missing, Missing, history), TopicSection(Missing),
             DescriptionSection(Missing, age, sex), Missing) :
      age \in {AgeNone, AgeStr(<<"4","5">>), AgeStr(<<"N","/","A">>), AgeStr(<<"4","5"," ","y","o">>), AgeInt(45),
               AgeStr(<<>>)},
      sex \in {Missing, Str(<<"m","a","l","e">>), Str(<<"M">>), Str(<<>>)},
      history \in {Missing, Str(<<"a"," ","5"," ","y","e","a","r"," ","o","l","d"," ","b","o","y">>), Str(<<"1","8"," ","m","o","n","t","h"," ","o","l","d"," ","i","n","f","a","n","t">>),
                   Str(<<"4","5"," ","y","e","a","r","s"," ","o","l","d"," ","w","o","m","a","n">>), Str(<<"2"," ","m","o","n","t","h","s"," ","o","l","d"," ","f","e","m","a","l","e">>),
                   Str(<<"s","e","e","n"," ","2","0","1","9",","," ","7"," ","M","O","N","T","H"," "," ","O","L","D"," ","g","i","r","l">>), Str(<<"3","0","Y","E","A","R"," ","o","l","d"," ","m","a","n">>),
                   Str(<<"h","u","m","a","n",","," ","n","o"," ","a","g","e">>) } }

(* ---------------------- ingestion: the sweep --------------------------- *)
\* line 245: key.lower().endswith(('.png', '.jpg', '.jpeg'))
IsImageKey(key) ==
  LET EndsWith(s, suffix) ==
        Len(suffix) <= Len(s) /\ SubSeq(s, Len(s) - Len(suffix) + 1, Len(s)) = suffix
  IN \E e \in {<<".","p","n","g">>, <<".","j","p","g">>, <<".","j","p","e","g">>} : EndsWith(Lower(key), e)

\* lines 246-247: key.split('/')[-1], then filename.split('_')[0]
KeyCaseId(key) ==
  LET LastPiece(s, ch) ==
        LET at == {i \in 1..Len(s) : s[i] = ch}
        IN IF at = {} THEN s
           ELSE SubSeq(s, (CHOOSE i \in at : \A j \in at : j <= i) + 1, Len(s))
      FirstPiece(s, ch) ==
        LET at == {i \in 1..Len(s) : s[i] = ch}
        IN IF at = {} THEN s
           ELSE SubSeq(s, 1, (CHOOSE i \in at : \A j \in at : i <= j) - 1)
  IN FirstPiece(LastPiece(key, "/"), "_")

\* position of u_id among the entries of a dict (0: no such key)
IndexOf(entries, u_id) ==
  IF \E i \in 1..Len(entries) : entries[i].u_id = u_id
  THEN CHOOSE i \in 1..Len(entries) : entries[i].u_id = u_id
  ELSE 0

\* faulty variant: the first key of a case is kept
SelectImages_FirstWins(keys, data) ==
  LET RECURSIVE Sel(_, _)
      Sel(i, acc) ==
        IF i > Len(keys) THEN acc
        ELSE LET u == KeyCaseId(keys[i])
             IN IF IsImageKey(keys[i]) /\ IndexOf(data, u) # 0 /\ IndexOf(acc, u) = 0
                THEN Sel(i + 1, Append(acc, [u_id |-> u, image_key |-> keys[i]]))
                ELSE Sel(i + 1, acc)
  IN Sel(1, <<>>)

\* lines 241-249: patient_images, a dict: a key set again keeps its place
SelectImages(keys, data) ==
  LET RECURSIVE Sel(_, _)
      Sel(i, acc) ==
        IF i > Len(keys) THEN acc
        ELSE LET u == KeyCaseId(keys[i])
             IN IF IsImageKey(keys[i]) /\ IndexOf(data, u) # 0
                THEN IF IndexOf(acc, u) # 0
                     THEN Sel(i + 1, [acc EXCEPT ![IndexOf(acc, u)].image_key = keys[i]])
                     ELSE Sel(i + 1, Append(acc, [u_id |-> u, image_key |-> keys[i]]))
                ELSE Sel(i + 1, acc)
  IN Sel(1, <<>>)

\* the corpus file: a complete record, one whose diagnosis comes from the
\* caption, one with a null caption, one whose Case section is no mapping
Corpora ==
  LET RecordA ==
        CaseData(<<"A">>, CaseSection(Str(<<"G","l","i","o","m","a">>), Missing, Missing, Missing),
                 TopicSection(Missing),
                 DescriptionSection(Str(<<"m","a","s","s">>), AgeStr(<<"4","5">>), Str(<<"m","a","l","e">>)), Missing)
      RecordB ==
        CaseData(<<"B">>, CaseSection(Str(<<>>), Missing, Missing, Str(<<"1","8"," ","m","o","n","t","h"," ","o","l","d"," ","g","i","r","l">>)),
                 TopicSection(Missing),
                 DescriptionSection(Str(<<"H","e","m","o","r","r","h","a","g","e">>), AgeNone, Missing), Missing)
      RecordC ==
        CaseData(<<"C">>, CaseSection(Missing, Missing, Missing, Missing), TopicSection(Missing),
                 DescriptionSection(None, AgeNone, Missing), Missing)
      NotAMapping == [CaseSection(Missing, Missing, Missing, Missing) EXCEPT !.k = "other"]
      RecordD ==
        CaseData(<<"D">>, NotAMapping, TopicSection(Missing),
                 DescriptionSection(Missing, AgeNone, Missing), Missing)
  IN { <<RecordA, RecordB, RecordC, RecordD>>, <<RecordD, RecordA>> }

\* a corpus file and the listing of the image prefix (distinct keys, at most
\* MaxKeys of them): the corpus of four records with any listing, or a single
\* record with its image
IngestInputs ==
  LET ImageKeys ==
        { <<"m","/","A","_","1",".","p","n","g">>, <<"m","/","A","_","2",".","J","P","G">>, <<"m","/","A","_","3",".","t","x","t">>, <<"m","/","B","_","1",".","j","p","e","g">>, <<"m","/","C","_","1",".","p","n","g">>,
          <<"m","/","D","_","1",".","j","p","g">>, <<"m","/","Z","_","1",".","p","n","g">> }
      Listings ==
        {l \in SeqsUpTo(ImageKeys, MaxKeys) : \A i, j \in 1..Len(l) : i # j => l[i] # l[j]}
  IN { [corpus |-> c, keys |-> l] : c \in Corpora, l \in Listings }
     \cup { [corpus |-> <<r>>, keys |-> <<<<"m","/","R","_","1",".","p","n","g">>>>] : r \in Records }

\* lines 380-386: the handler reads case_data, the local of the loop body:
\* unbound before the first assignment, otherwise the last record assigned
HandlerRaises(data, bound) ==
  bound = 0 \/ data[bound].case.k = "other"

\* lines 252-386: one pass of the loop for one entry of patient_images, with the
\* download answering dl and the index write answering ix; outcome "aborted"
\* is the handler raising, which leaves the loop for the outer handler
CaseOutcome(data, bound, entry, dl, ix) ==
  LET here == IndexOf(data, entry.u_id)
      built == BuildDocument(data[here], entry.u_id, entry.image_key)
  IN IF dl = "raise"
     THEN [bound |-> bound, downloaded |-> FALSE, submitted |-> FALSE, doc |-> NoDocument,
           outcome |-> IF HandlerRaises(data, bound) THEN "aborted" ELSE "skipped"]
     ELSE IF built.raised
     THEN [bound |-> here, downloaded |-> TRUE, submitted |-> FALSE, doc |-> NoDocument,
           outcome |-> IF HandlerRaises(data, here) THEN "aborted" ELSE "skipped"]
     ELSE [bound |-> here, downloaded |-> TRUE, submitted |-> TRUE, doc |-> built.doc,
           outcome |-> IF ix = "ok" THEN "indexed"
                       ELSE IF HandlerRaises(data, here) THEN "aborted" ELSE "skipped"]

IndexInit ==
  /\ ing_pc = "idle"
  /\ medical_data = <<>>
  /\ listing = <<>>
  /\ patient_images = <<>>
  /\ ing_pos = 1
  /\ case_data = 0
  /\ downloads = <<>>
  /\ submitted = <<>>
  /\ indexed_count = 0
  /\ outcomes = <<>>
  /\ ing_exit = "none"
  /\ ing_result = 0

\* lines 178-249 of load_and_index_data: the corpus file is read (load), the
\* first records are looked at, the image keys are listed (list) and one key
\* per case is selected; without selected images the call runs to its end
\* (lines 217-220: the look at the first records raises on a Case that is no mapping)
IngestStart(corpus, load, list, keys) ==
  /\ ing_pc = "idle"
  /\ IF \/ load = "raise"
        \/ \E i \in 1..Min(SampleSize, Len(corpus)) : corpus[i].case.k = "other"
        \/ list = "raise"
     THEN /\ ing_pc' = "returned"
          /\ ing_exit' = "early"
          /\ medical_data' = IF load = "raise" THEN <<>> ELSE corpus
          /\ UNCHANGED <<listing, patient_images>>
     ELSE /\ medical_data' = corpus
          /\ listing' = keys
          /\ patient_images' = SelectImages(keys, corpus)
          /\ IF SelectImages(keys, corpus) = <<>>
             THEN ing_pc' = "returned" /\ ing_exit' = "complete"
             ELSE ing_pc' = "sweep" /\ ing_exit' = "none"
  /\ ing_result' = 0
  /\ UNCHANGED <<ing_pos, case_data, downloads, submitted, indexed_count, outcomes>>
  /\ UNCHANGED <<search_vars, embed_vars, parts_vars, fallback_vars, alert_vars, conc_vars>>

\* lines 252-386, and after the last pass lines 388-432 (the wait, the
\* validation read and the test searches change nothing the call returns) or,
\* from a raising handler, lines 434-439
ProcessCase(dl, ix) ==
  /\ ing_pc = "sweep"
  /\ LET entry == patient_images[ing_pos]
         r == CaseOutcome(medical_data, case_data, entry, dl, ix)
         count == IF r.outcome = "indexed" THEN indexed_count + 1 ELSE indexed_count
     IN /\ case_data' = r.bound
        /\ downloads' = IF r.downloaded THEN Append(downloads, entry.image_key) ELSE downloads
        /\ submitted' = IF r.submitted THEN Append(submitted, r.doc) ELSE submitted
        /\ indexed_count' = count
        /\ outcomes' = Append(outcomes, r.outcome)
        /\ ing_pos' = ing_pos + 1
        /\ IF r.outcome = "aborted"
           THEN ing_pc' = "returned" /\ ing_exit' = "aborted" /\ ing_result' = 0
           ELSE IF ing_pos = Len(patient_images)
           THEN ing_pc' = "returned" /\ ing_exit' = "complete" /\ ing_result' = count
           ELSE UNCHANGED <<ing_pc, ing_exit, ing_result>>
  /\ UNCHANGED <<medical_data, listing, patient_images>>
  /\ UNCHANGED <<search_vars, embed_vars, parts_vars, fallback_vars, alert_vars, conc_vars>>

IndexNext ==
  \/ \E in \in IngestInputs, load \in {"ok", "raise"}, list \in {"ok", "raise"} :
        IngestStart(in.corpus, load, list, in.keys)
  \/ \E dl \in {"ok", "raise"}, ix \in {"ok", "raise"} : ProcessCase(dl, ix)

(* --------------- the agent's steps on inputs of their own -------------- *)
\* values of diagnosis_result and keywords, some made of commas and spaces only
ComposeInputs ==
  { [dr |-> [k |-> "dict", diagnosis |-> d, findings |-> f, location |-> l], kw |-> kw] :
      d \in {Missing, Str(<<>>), Str(<<"g","l","i","o","m","a">>), Str(<<",">>)},
      f \in {None, Str(<<"m","a","s","s">>), Str(<<" "," ">>)},
      l \in {Str(<<>>), Str(<<" ","l","e","f","t"," ","l","o","b","e",",">>), Str(<<","," ">>)},
      kw \in {<<>>, <<"m","r","i">>, <<" ",",">>, <<",">>} }

\* relevance of the cases the engine may return, in thousandths (no mean of
\* these falls on a rounding tie, where round() follows the binary value)
CaseScores == {300, 332, 600, 900}

\* lists the engine may return: at most MaxCases results
EngineResults ==
  SeqsUpTo({ResultOf(d, SafeDiagnosis(d), s) :
              d \in {x \in Docs : x.u_id \in {"D1", "D2"}}, s \in CaseScores}, MaxCases)

PartsInit ==
  /\ parts_pc = "idle"
  /\ parts_input = [dr |-> NoDiagnosisResult, kw |-> <<>>]
  /\ parts_query = <<>>
  /\ parts_envelope = NoEnvelope

\* lines 21-37 of the agent: the query text for one pair of inputs
ComposeStep(in) ==
  /\ parts_pc = "idle"
  /\ parts_pc' = "composed"
  /\ parts_input' = in
  /\ parts_query' = ComposeQuery(in.dr, in.kw)
  /\ UNCHANGED parts_envelope
  /\ UNCHANGED <<search_vars, embed_vars, index_vars, fallback_vars, alert_vars, conc_vars>>

\* lines 48-79 of the agent: formatting, statistics and the envelope for one
\* list returned by the engine
StatisticsStep(cases) ==
  /\ parts_pc = "idle"
  /\ parts_pc' = "answered"
  /\ LET formatted_cases == FormatCases(cases)
     IN \E mc \in (IF formatted_cases = <<>> THEN {NoSimilarCasesFound}
                   ELSE MostCommonCandidates(formatted_cases)) :
          parts_envelope' = SuccessEnvelope(formatted_cases, <<>>, mc)
  /\ UNCHANGED <<parts_input, parts_query>>
  /\ UNCHANGED <<search_vars, embed_vars, index_vars, fallback_vars, alert_vars, conc_vars>>

PartsNext ==
  \/ \E in \in ComposeInputs : ComposeStep(in)
  \/ \E cases \in EngineResults : StatisticsStep(cases)

(* ------------------------- the alert agent ----------------------------- *)
\* emergency_keywords, in the order of the list (a character outside ASCII is
\* written by its code point)
EmergencyKeywords ==
  << <<"U+CD9C", "U+D608">>, <<"b","l","e","e","d","i","n","g">>, <<"U+D608", "U+C885">>, <<"h","e","m","a","t","o","m","a">>,
     <<"U+B1CC", "U+C878", "U+C911">>, <<"s","t","r","o","k","e">>, <<"U+ACBD", "U+C0C9">>, <<"i","n","f","a","r","c","t","i","o","n">>,
     <<"U+C885", "U+C591">>, <<"t","u","m","o","r">>, <<"U+C554">>, <<"c","a","n","c","e","r">>, <<"m","a","l","i","g","n","a","n","t">>,
     <<"U+D30C", "U+C5F4">>, <<"r","u","p","t","u","r","e">>, <<"U+CC9C", "U+ACF5">>, <<"p","e","r","f","o","r","a","t","i","o","n">>,
     <<"U+C751", "U+AE09">>, <<"e","m","e","r","g","e","n","c","y">>, <<"U+C704", "U+D5D8">>, <<"c","r","i","t","i","c","a","l">> >>

\* faulty variant: the doctor's address is not asked for
ShouldSendEmail_NoAddress(alert_needed, config) == alert_needed /\ config.enabled

\* line 70: alert_needed and Config.ENABLE_EMAIL_ALERTS and Config.DOCTOR_EMAIL
ShouldSendEmail(alert_needed, config) ==
  alert_needed /\ config.enabled /\ config.doctor_email # <<>>

NoAlertResult ==
  [alert_needed |-> "none", alert_reason |-> <<>>, confidence_threshold |-> 0,
   email_sent |-> FALSE, email_message_id |-> <<>>]

\* lines 27-78 and 86-140: alert_result and the send_email call made, with SES
\* answering ses ("ok" or "raise"); .lower() and re.findall raise on a value
\* that is no string
AlertOutcome(dr, config, client, ses) ==
  IF \E f \in {dr.diagnosis, dr.confidence, dr.findings} : f.k = "none"
  THEN [raised |-> TRUE, emails |-> <<>>, result |-> NoAlertResult]
  ELSE
    LET diagnosis == Lower(Get(dr.diagnosis, <<>>).v)
        confidence == Get(dr.confidence, <<"0","%">>).v
        findings == Lower(Get(dr.findings, <<>>).v)
        digits == {i \in 1..Len(confidence) : confidence[i] \in DigitSet}
        first == CHOOSE i \in digits : \A j \in digits : i <= j
        confidence_num ==
          IF digits = {} THEN 0
          ELSE ParseInt(SubSeq(confidence, first, SkipDigits(confidence, first) - 1))
        serious_keywords ==
          << <<"U+C885", "U+C591">>, <<"t","u","m","o","r">>, <<"U+CD9C", "U+D608">>, <<"b","l","e","e","d","i","n","g">>,
             <<"U+B1CC", "U+C878", "U+C911">>, <<"s","t","r","o","k","e">> >>
        detected == SelectSeq(EmergencyKeywords,
                      LAMBDA w : IsSubstr(w, diagnosis) \/ IsSubstr(w, findings))
        serious == IF confidence_num >= SeriousConfidence
                   THEN SelectSeq(serious_keywords, LAMBDA w : IsSubstr(w, diagnosis))
                   ELSE <<>>
        alert_reason == detected \o serious
        alert_needed == alert_reason # <<>>
        send == ShouldSendEmail(alert_needed, config)
        called == send /\ client = "client"
        success == called /\ ses = "ok"
    IN [raised |-> FALSE,
        emails |-> IF called THEN <<[to |-> config.doctor_email, ses |-> ses]>> ELSE <<>>,
        result |-> [alert_needed |-> IF alert_needed THEN "yes" ELSE "no",
                    alert_reason |-> alert_reason,
                    confidence_threshold |-> confidence_num,
                    email_sent |-> success,
                    email_message_id |-> IF success THEN <<"i","d","-","1">> ELSE <<>>]]

\* values of diagnosis_result: fields missing, null, with and without keywords
AlertInputs ==
  { [diagnosis |-> d, confidence |-> c, findings |-> f] :
      d \in {Missing, None, Str(<<"N","o","r","m","a","l">>), Str(<<"B","r","a","i","n"," ","T","u","m","o","r">>), Str(<<"S","T","R","O","K","E">>)},
      c \in {Missing, Str(<<"8","5","%">>), Str(<<"a","b","o","u","t"," ","7","9",".","9">>), Str(<<"h","i","g","h">>)},
      f \in {Missing, Str(<<"n","o"," ","b","l","e","e","d","i","n","g">>), Str(<<"U+C885", "U+C591">>), Str(<<"c","l","e","a","r">>)} }

AlertInit ==
  /\ al_pc = "new"
  /\ al_config = [enabled |-> FALSE, doctor_email |-> <<>>]
  /\ ses_client = "none"
  /\ al_input = [diagnosis |-> Missing, confidence |-> Missing, findings |-> Missing]
  /\ al_emails = <<>>
  /\ al_result = NoAlertResult
  /\ al_raised = FALSE

\* lines 13-22: AlertSystemAgent() under one configuration
AlertConstruct(enabled, doctor_email) ==
  /\ al_pc = "new"
  /\ al_pc' = "ready"
  /\ al_config' = [enabled |-> enabled, doctor_email |-> doctor_email]
  /\ ses_client' = IF enabled THEN "client" ELSE "none"
  /\ UNCHANGED <<al_input, al_emails, al_result, al_raised>>
  /\ UNCHANGED <<search_vars, embed_vars, index_vars, parts_vars, fallback_vars, conc_vars>>

\* lines 24-78: evaluate_alert_need(dr)
EvaluateAlertNeed(dr, ses) ==
  /\ al_pc = "ready"
  /\ al_pc' = "returned"
  /\ al_input' = dr
  /\ LET out == AlertOutcome(dr, al_config, ses_client, ses)
     IN /\ al_emails' = out.emails
        /\ al_result' = out.result
        /\ al_raised' = out.raised
  /\ UNCHANGED <<al_config, ses_client>>
  /\ UNCHANGED <<search_vars, embed_vars, index_vars, parts_vars, fallback_vars, conc_vars>>

AlertNext ==
  \/ \E enabled \in BOOLEAN, doctor_email \in {<<>>, <<"d","r","@","h",".","o","r","g">>} :
       AlertConstruct(enabled, doctor_email)
  \/ \E dr \in AlertInputs, ses \in {"ok", "raise"} : EvaluateAlertNeed(dr, ses)

(* ---------------- interleaved searches against one index --------------- *)
\* query texts of the interleaved calls
ConcQueries == { <<"s","t","r","o","k","e">>, <<"x","y","z">> }

\* what an index may hold: for each query text the ranked hits of the Tier 1
\* query, and the documents in the order a match-all read answers them; the
\* index is available, and answers the same request the same way
Indexes ==
  LET Doc(u) == CHOOSE d \in Docs : d.u_id = u
      ranked == << [source |-> Doc("D1"), score |-> 1500], [source |-> Doc("D3"), score |-> 7000] >>
  IN { [set |-> TRUE, tier1 |-> [q \in ConcQueries |-> IF q = <<"s","t","r","o","k","e">> THEN t ELSE <<>>],
        docs |-> d] :
         t \in {<<>>, ranked}, d \in {<<>>, <<Doc("D3"), Doc("D1")>>} }
     \ { [set |-> TRUE, tier1 |-> [q \in ConcQueries |-> IF q = <<"s","t","r","o","k","e">> THEN ranked ELSE <<>>],
          docs |-> <<>>] }

\* faulty variant: the locals are kept in the engine object, one frame for all calls
Slot_Shared(p) == 1

\* the frame of call p: query_text, top_k, attempt, fallback_response and
\* results are locals of the call (lines 441-625 assign no attribute of self)
Slot(p) == p

\* search_similar_cases(q, top_k=k) run by itself against the index ix
SearchAlone(ix, q, k) ==
  LET found == Tier1Results(SubSeq(ix.tier1[q], 1, Min(k, Len(ix.tier1[q]))))
      fr == [set |-> TRUE, total |-> Len(ix.docs),
             hits |-> SubSeq(ix.docs, 1, Min(2 * k, Len(ix.docs)))]
  IN IF found # <<>> THEN found ELSE AfterReads(fr, q, k).results

ConcInit ==
  /\ cx_index = [set |-> FALSE, tier1 |-> [q \in ConcQueries |-> <<>>], docs |-> <<>>]
  /\ cx_ops = {}
  /\ cx_call = [p \in {1, 2} |->
                  [pc |-> "idle", query_text |-> <<>>, top_k |-> 0, seen |-> cx_index,
                   overlapped |-> FALSE, returned |-> <<>>]]
  /\ cx_local = [p \in {1, 2} |->
                   [query_text |-> <<>>, top_k |-> 0, attempt |-> 0,
                    fallback_response |-> NoResponse]]

\* the index as the ingestion left it
IndexHolds(ix) ==
  /\ ~cx_index.set
  /\ cx_index' = ix
  /\ UNCHANGED <<cx_ops, cx_call, cx_local>>
  /\ UNCHANGED <<search_vars, embed_vars, index_vars, parts_vars, fallback_vars, alert_vars>>

\* call p enters search_similar_cases(q, top_k=k)
ConcCall(p, q, k) ==
  /\ cx_index.set
  /\ cx_call[p].pc = "idle"
  /\ cx_call' = [cx_call EXCEPT ![p] =
                   [pc |-> "tier1", query_text |-> q, top_k |-> k, seen |-> cx_index,
                    overlapped |-> \E o \in DOMAIN cx_call : cx_call[o].pc \in {"tier1", "tier2"},
                    returned |-> <<>>]]
  /\ cx_local' = [cx_local EXCEPT ![Slot(p)] =
                    [query_text |-> q, top_k |-> k, attempt |-> 0,
                     fallback_response |-> NoResponse]]
  /\ UNCHANGED <<cx_index, cx_ops>>
  /\ UNCHANGED <<search_vars, embed_vars, index_vars, parts_vars, fallback_vars, alert_vars>>

\* lines 483-516 for call p: the Tier 1 query and the code up to the retry loop
ConcTier1(p) ==
  /\ cx_call[p].pc = "tier1"
  /\ LET l == cx_local[Slot(p)]
         ranked == cx_index.tier1[l.query_text]
         found == Tier1Results(SubSeq(ranked, 1, Min(l.top_k, Len(ranked))))
         others == \E o \in DOMAIN cx_call \ {p} : cx_call[o].pc \in {"tier1", "tier2"}
     IN cx_call' = [cx_call EXCEPT
                      ![p].pc = IF found # <<>> THEN "returned" ELSE "tier2",
                      ![p].returned = found,
                      ![p].overlapped = @ \/ others]
  /\ cx_ops' = cx_ops \cup {"search"}
  /\ UNCHANGED <<cx_index, cx_local>>
  /\ UNCHANGED <<search_vars, embed_vars, index_vars, parts_vars, fallback_vars, alert_vars>>

\* lines 520-619 for call p: one pass of the retry loop; the pass that ends the
\* loop also runs the code after it, up to the return
ConcRead(p) ==
  /\ cx_call[p].pc = "tier2"
  /\ cx_local[Slot(p)].attempt < MaxReadAttempts
  /\ LET l == cx_local[Slot(p)]
         fr == [set |-> TRUE, total |-> Len(cx_index.docs),
                hits |-> SubSeq(cx_index.docs, 1, Min(2 * l.top_k, Len(cx_index.docs)))]
         last == fr.total > 0 \/ l.attempt = MaxReadAttempts - 1
         others == \E o \in DOMAIN cx_call \ {p} : cx_call[o].pc \in {"tier1", "tier2"}
     IN /\ cx_local' = [cx_local EXCEPT ![Slot(p)].attempt = @ + 1,
                                        ![Slot(p)].fallback_response = fr]
        /\ cx_call' = [cx_call EXCEPT
                         ![p].pc = IF last THEN "returned" ELSE "tier2",
                         ![p].returned = IF last THEN AfterReads(fr, l.query_text, l.top_k).results
                                         ELSE @,
                         ![p].overlapped = @ \/ others]
  /\ cx_ops' = cx_ops \cup {"search"}
  /\ UNCHANGED cx_index
  /\ UNCHANGED <<search_vars, embed_vars, index_vars, parts_vars, fallback_vars, alert_vars>>

(* ------------- _generate_fallback_results on inputs of its own --------- *)
\* query texts: the engine's, and texts that match several keywords of the table
FallbackQueries ==
  Queries \cup { <<"g","l","i","o","b","l","a","s","t","o","m","a"," ","t","u","m","o","r">>, <<"h","e","m","o","r","r","h","a","g","e"," ","s","t","r","o","k","e">>, <<"H","y","d","r","o","c","e","p","h","a","l","u","s">>, <<"s","t","r","o","k">>,
                 <<"m">>, <<"T","U","M","O","R",","," ","h","e","m","o","r","r","h","a","g","e",","," ","s","t","r","o","k","e">> }

FallbackInit ==
  /\ fb_pc = "idle"
  /\ fb_query = <<>>
  /\ fb_top_k = 0
  /\ fb_results = <<>>

\* lines 627-688: _generate_fallback_results(q, k)
GenerateStep(q, k) ==
  /\ fb_pc = "idle"
  /\ fb_pc' = "generated"
  /\ fb_query' = q
  /\ fb_top_k' = k
  /\ fb_results' = GenerateFallbackResults(q, k)
  /\ UNCHANGED <<search_vars, embed_vars, index_vars, parts_vars, alert_vars, conc_vars>>

(* -------------------------- specifications ----------------------------- *)
Init == SearchInit /\ EmbedInit /\ IndexInit /\ PartsInit /\ FallbackInit
        /\ AlertInit /\ ConcInit

Next == SearchNext

\* the retrieval path: the engine called directly or through the agent
Spec == Init /\ [][Next]_vars

\* the embedding generator
SpecEmbed == Init /\ [][EmbedNext]_vars

\* ingestion: load_and_index_data
SpecIndex == Init /\ [][IndexNext]_vars

\* the agent's query composition and statistics, each on inputs of its own
SpecAgentSteps == Init /\ [][PartsNext]_vars

\* the alert agent: construction, then evaluate_alert_need
SpecAlert == Init /\ [][AlertNext]_vars

\* two searches against one index, their steps interleaved
SpecConcurrent ==
  Init /\ [][\/ \E ix \in Indexes : IndexHolds(ix)
             \/ \E p \in {1, 2}, q \in ConcQueries, k \in {1, 2} : ConcCall(p, q, k)
             \/ \E p \in {1, 2} : ConcTier1(p) \/ ConcRead(p)]_vars

\* the Tier 3 generator, for every query text and list length
SpecFallback ==
  Init /\ [][\E q \in FallbackQueries, k \in 0..MaxFallbackK : GenerateStep(q, k)]_vars

(* ------------------------------ claims --------------------------------- *)
\* the engine has returned to its caller (a direct caller, or the agent)
EngineReturned == pc \in {"returned", "done"} /\ tier1 # "none"

\* the unfiltered reads made after a Tier 1 query without hits
AllReads(kind) == \A i \in 1..Len(reads) : reads[i] = kind

\* C1 (as claimed): whenever Tier 1 has no hits and Tier 2 ends without results
\* (no document matched, or reads raised, all 3 included), and whenever the Tier 1
\* call raises, the engine returns the Tier 3 list, which is not empty.
C1_Tier3WheneverTiers12Fail ==
  (EngineReturned /\ top_k >= 1 /\ (tier1 = "raise" \/ (tier1 = "nohits" /\ tier # 2)))
    => /\ results = GenerateFallbackResults(query_text, top_k)
       /\ results # <<>>

\* C2: Tier 1 without hits and every match-all read answering with total 0:
\* exactly 3 reads are made, then the non-empty Tier 3 list is returned, no raise.
C2_EmptyCorpusReachesTier3 ==
  (EngineReturned /\ tier1 = "nohits" /\ AllReads("empty"))
    => /\ Len(reads) = MaxReadAttempts
       /\ tier = 3
       /\ results = GenerateFallbackResults(query_text, top_k)
       /\ results # <<>>
       /\ ~engine_raised

C2_Witness ==
  /\ pc = "returned"
  /\ tier1 = "nohits"
  /\ reads = <<"empty", "empty", "empty">>
  /\ tier = 3
  /\ results # <<>>

\* C3: whichever tier answers, the returned list has at most top_k entries.
C3_AtMostTopK == EngineReturned => Len(results) <= top_k

\* number of documents of a match-all response that pass the candidate test
C3_Candidates(hits, q) ==
  Cardinality({i \in 1..Len(hits) :
     /\ Get(hits[i].description, <<>>).k = "str"
     /\ IsCandidate(Lower(q), Split(Lower(q)), Lower(SafeDiagnosis(hits[i])),
                    Lower(Get(hits[i].description, <<>>).v))})

\* Tier 2 retrieved more candidates than top_k and returned top_k of them
C3_Witness ==
  /\ pc = "returned"
  /\ tier = 2
  /\ Len(results) = top_k
  /\ C3_Candidates(fallback_response.hits, query_text) > top_k

\* C4: whichever tier answers, every similarity_score lies in [0, 1].
C4_ScoresInUnitInterval ==
  EngineReturned =>
    \A i \in 1..Len(results) :
       results[i].similarity_score >= 0 /\ results[i].similarity_score <= One

\* a Tier 1 answer holding a capped score beside an uncapped one
C4_Witness ==
  /\ pc = "returned"
  /\ tier = 1
  /\ \E i, j \in 1..Len(results) :
       results[i].similarity_score = One /\ results[j].similarity_score < One

\* C5 (as claimed): both embedding methods return exactly 1024 elements, whatever
\* length the service returned.
C5_EmbeddingHas1024Elements == emb_op # "none" => Len(emb_result) = EmbeddingDim

\* C6: embedding generation never raises; a failed multimodal call is answered by
\* get_text_embedding on the same text, a failed text call by the zero vector of
\* length 1024; the service never receives empty or whitespace-only text.
C6_EmbeddingNeverRaises ==
  emb_op # "none" =>
    /\ ~emb_raised
    /\ \A i \in 1..Len(emb_calls) : Strip(emb_calls[i].text) # <<>>
    /\ (emb_op = "multimodal" /\ emb_calls # <<>> /\ emb_calls[1].fail) =>
         /\ Len(emb_calls) = 2
         /\ emb_calls[2].model = "amazon.titan-embed-text-v1"
         /\ emb_calls[2].text = emb_calls[1].text
         /\ emb_result = IF emb_calls[2].fail THEN ZeroVector
                         ELSE PadOrTruncate(ServiceVector(emb_calls[2].len))
    /\ (emb_op = "text" /\ emb_calls # <<>> /\ emb_calls[1].fail) => emb_result = ZeroVector
    /\ emb_calls = <<>> => emb_result = ZeroVector

\* blank text, both service calls failing: the zero vector comes back
C6_Witness ==
  /\ emb_op = "multimodal"
  /\ emb_text = Str(<<" ", "\t">>)
  /\ Len(emb_calls) = 2
  /\ emb_calls[1].fail
  /\ emb_calls[2].fail
  /\ emb_calls[1].text = MedicalImageAnalysis
  /\ emb_result = ZeroVector

\* Tier 3 answered a query that contains "glioblastoma"
C7_GlioblastomaInTier3 ==
  EngineReturned /\ tier = 3 /\ top_k >= 1 /\ IsSubstr(KW_glioblastoma, Lower(query_text))

C7_GlioblastomaMultiforme == <<"g","l","i","o","b","l","a","s","t","o","m","a"," ","m","u","l","t","i","f","o","r","m","e">>

C7_FirstIsMPX1134 ==
  /\ results # <<>>
  /\ results[1].u_id = "MPX1134"
  /\ IsSubstr(C7_GlioblastomaMultiforme, Lower(results[1].diagnosis))

\* C7 (as claimed): a Tier 3 list for a query containing "glioblastoma", whatever
\* else it contains, starts with case MPX1134, diagnosis "... glioblastoma multiforme".
C7_Original == C7_GlioblastomaInTier3 => C7_FirstIsMPX1134

\* C7 (amended): the same, for queries that contain none of the keywords
\* "hemorrhage", "stroke", "hydrocephalus", whose lists precede the glioblastoma list.
C7_GlioblastomaFirst ==
  (/\ C7_GlioblastomaInTier3
   /\ ~IsSubstr(KW_hemorrhage, Lower(query_text))
   /\ ~IsSubstr(KW_stroke, Lower(query_text))
   /\ ~IsSubstr(KW_hydrocephalus, Lower(query_text)))
    => C7_FirstIsMPX1134

C7_Witness ==
  /\ C7_GlioblastomaInTier3
  /\ query_text # Lower(query_text)
  /\ Len(results) = 2
  /\ results[1].u_id = "MPX1134"
  /\ results[2].u_id = "MPX1184"

\* the diagnosis of maximal count that comes first in the list
C8_FirstSeenMostCommon(cases) ==
  LET best == {i \in 1..Len(cases) :
                 \A j \in 1..Len(cases) :
                    DiagnosisCount(cases, cases[i].diagnosis) >= DiagnosisCount(cases, cases[j].diagnosis)}
  IN cases[CHOOSE i \in best : \A j \in best : i <= j].diagnosis

\* C8 (as claimed): most_common_diagnosis is the diagnosis of highest frequency,
\* and among several of highest frequency the one that appears first in the list.
C8_MostCommonIsFirstSeen ==
  (pc = "done" /\ envelope.success /\ envelope.similar_cases # <<>>)
    => envelope.most_common_diagnosis = C8_FirstSeenMostCommon(envelope.similar_cases)

\* C9: with string inputs the agent answers success = true whatever the index
\* does; success = false only after an exception outside the engine's tier chain
\* (here: diagnosis_result is no dict); the agent never raises.
C9_AgentAlwaysAnswers ==
  /\ ~agent_raised
  /\ pc = "done" => (envelope.success <=> diagnosis_result.k = "dict")

\* every index call of the search raised, and the agent still reports success
C9_Witness ==
  /\ pc = "done"
  /\ envelope.success
  /\ tier1 = "nohits"
  /\ reads = <<"raise", "raise", "raise">>

\* the diagnosis field of an index document is missing, null, empty or blank
C10_RawDiagnosisBlank(d) == d.diagnosis.k # "str" \/ Strip(d.diagnosis.v) = <<>>

\* C10: every entry of similar_cases has a non-blank diagnosis, and an entry made
\* in Tier 1 or 2 from a document whose diagnosis is missing, empty or blank has
\* the diagnosis "Unknown Diagnosis".
C10_DiagnosisNeverBlank ==
  pc = "done" =>
    \A i \in 1..Len(envelope.similar_cases) :
       LET c == envelope.similar_cases[i]
       IN /\ Strip(c.diagnosis) # <<>>
          /\ tier \in {1, 2} =>
               \A d \in Docs :
                  (d.u_id = c.case_id /\ C10_RawDiagnosisBlank(d)) => c.diagnosis = UnknownDiagnosis

\* a Tier 2 answer that holds the document with the whitespace-only diagnosis
C10_Witness ==
  /\ pc = "done"
  /\ tier = 2
  /\ \E i \in 1..Len(envelope.similar_cases) :
       /\ envelope.similar_cases[i].case_id = "D3"
       /\ envelope.similar_cases[i].diagnosis = UnknownDiagnosis

\* the record of medical_data a submitted document was built from
RecordOf(doc) == medical_data[IndexOf(medical_data, doc.u_id)]

\* C11 (as claimed): an error while one case is processed (a failed download, a
\* malformed record such as a Case section that is no mapping, a failed index
\* write), the first case included, skips that case only: the sweep passes over
\* every selected case and runs to its end.
C11_ErrorSkipsOneCaseOnly ==
  (ing_pc = "returned" /\ ing_exit # "early")
    => /\ ing_exit = "complete"
       /\ Len(outcomes) = Len(patient_images)
       /\ \A i \in 1..Len(outcomes) : outcomes[i] \in {"indexed", "skipped"}

\* every field of the diagnosis waterfall is missing, null, empty or blank
C12_WaterfallBlank(cd) ==
  \A f \in {cd.case.diagnosis, cd.case.title, cd.topic.title, cd.diagnosis} :
     f.k # "str" \/ Strip(f.v) = <<>>

\* the caption keywords that stand for a label
C12_KeywordsOf(label) ==
  IF label = <<"H","e","m","o","r","r","h","a","g","e">> THEN {KW_hemorrhage}
  ELSE IF label = <<"H","y","d","r","o","c","e","p","h","a","l","u","s">> THEN {KW_hydrocephalus}
  ELSE IF label = <<"S","t","r","o","k","e">> THEN {KW_stroke}
  ELSE IF label = <<"B","r","a","i","n"," ","T","u","m","o","r">> THEN {KW_tumor, <<"m","a","s","s">>}
  ELSE {}

C12_Labels == {<<"H","e","m","o","r","r","h","a","g","e">>, <<"H","y","d","r","o","c","e","p","h","a","l","u","s">>, <<"S","t","r","o","k","e">>, <<"B","r","a","i","n"," ","T","u","m","o","r">>}

\* C12: every document passed to the index has a diagnosis that is neither empty
\* nor blank; when every waterfall field is empty or blank it is a label whose
\* keyword stands in the caption, and "Unknown Diagnosis" when no keyword does.
C12_SubmittedDiagnosisNeverBlank ==
  \A i \in 1..Len(submitted) :
     LET d == submitted[i].diagnosis
         cd == RecordOf(submitted[i])
         caption == Lower(Get(cd.desc.caption, <<>>).v)
         found == {l \in C12_Labels : \E w \in C12_KeywordsOf(l) : IsSubstr(w, caption)}
     IN /\ d # <<>>
        /\ Strip(d) # <<>>
        /\ C12_WaterfallBlank(cd) =>
             /\ d \in found \cup {UnknownDiagnosis}
             /\ (d = UnknownDiagnosis) = (found = {})

\* a record without any diagnosis and without a keyword in its caption was
\* submitted as "Unknown Diagnosis"
C12_Witness ==
  /\ ing_exit = "complete"
  /\ \E i \in 1..Len(submitted) :
       /\ C12_WaterfallBlank(RecordOf(submitted[i]))
       /\ RecordOf(submitted[i]).desc.caption.k = "str"
       /\ submitted[i].diagnosis = UnknownDiagnosis

\* positions of the listing that hold an image key of case u_id
C13_KeysOf(u_id) ==
  {i \in 1..Len(listing) : IsImageKey(listing[i]) /\ KeyCaseId(listing[i]) = u_id}

C13_LastKeyOf(u_id) ==
  listing[CHOOSE i \in C13_KeysOf(u_id) : \A j \in C13_KeysOf(u_id) : j <= i]

C14_Units == AgeUnits \cup {<<"y","e","a","r","s">>, <<"m","o","n","t","h","s">>}

\* C14 (as claimed): without a structured age, the age of the document is the
\* number of a phrase "<n> year old", "<n> years old", "<n> month old" or
\* "<n> months old" of the history, months divided by 12 (integer division).
C14_AgeFromEveryPhrase ==
  \A i \in 1..Len(submitted) :
     LET cd == RecordOf(submitted[i])
         m == AgeSearch(Get(cd.case.history, <<>>).v, C14_Units)
     IN (cd.desc.age.k = "none" /\ cd.case.history.k = "str" /\ m.found)
          => submitted[i].age =
               AgeInt(IF m.month THEN m.number \div MonthsPerYear ELSE m.number)

\* C15 (as claimed): every document passed to the index has an age that is an
\* integer or null and a sex that is male, female or unknown (null counted as
\* unknown here), whatever the record's Age and Sex fields hold.
C15_AgeAndSexNormalised ==
  \A i \in 1..Len(submitted) :
     /\ submitted[i].age.k \in {"int", "none"}
     /\ \/ submitted[i].sex.k = "none"
        \/ submitted[i].sex.k = "str"
           /\ submitted[i].sex.v \in {<<"m","a","l","e">>, <<"f","e","m","a","l","e">>, <<"u","n","k","n","o","w","n">>}

\* search_components: the non-empty inputs in the order diagnosis, findings,
\* location, keywords
C16_Values ==
  LET value(f) == IF Truthy(Get(f, <<>>)) THEN <<Get(f, <<>>).v>> ELSE <<>>
  IN value(parts_input.dr.diagnosis) \o value(parts_input.dr.findings)
     \o value(parts_input.dr.location)
     \o (IF parts_input.kw # <<>> THEN <<parts_input.kw>> ELSE <<>>)

C16_OnlySeparators(s) == \A i \in 1..Len(s) : s[i] \in {",", " "}

\* C16 (as claimed): the query text is the non-empty inputs joined by ", ", and
\* it is empty only if all four inputs are empty.
C16_QueryIsJoin ==
  parts_pc = "composed" =>
    /\ parts_query = Join(C16_Values, Separator)
    /\ (parts_query = <<>> => C16_Values = <<>>)

\* C16 (amended): the query text is the non-empty inputs joined by ", " without
\* the commas and spaces at its two ends; it is empty exactly when every input
\* is empty or made of commas and spaces only.
C16_QueryIsStrippedJoin ==
  parts_pc = "composed" =>
    LET joined == Join(C16_Values, Separator)
    IN /\ \E i \in 0..Len(joined) : \E j \in i..Len(joined) :
            /\ parts_query = SubSeq(joined, i + 1, j)
            /\ C16_OnlySeparators(SubSeq(joined, 1, i))
            /\ C16_OnlySeparators(SubSeq(joined, j + 1, Len(joined)))
       /\ parts_query # <<>> =>
            parts_query[1] \notin {",", " "} /\ parts_query[Len(parts_query)] \notin {",", " "}
       /\ (parts_query = <<>>) = (\A n \in 1..Len(C16_Values) : C16_OnlySeparators(C16_Values[n]))

\* inputs that are not all empty, made of commas and spaces, gave an empty query
C16_Witness ==
  /\ parts_pc = "composed"
  /\ C16_Values # <<>>
  /\ parts_query = <<>>

\* the scores of the envelope's cases
C17_Scores ==
  [i \in 1..Len(parts_envelope.similar_cases) |-> parts_envelope.similar_cases[i].similarity_score]

RECURSIVE C17_Sum(_)
C17_Sum(scores) == IF scores = <<>> THEN 0 ELSE scores[1] + C17_Sum(Tail(scores))

\* C17: average_similarity is the arithmetic mean of the returned scores to three
\* decimals (within half a thousandth of sum / count), 0 for an empty list, and
\* 0.6 for the scores 0.9, 0.6, 0.3.
C17_AverageIsMean ==
  parts_pc = "answered" =>
    LET n == Len(C17_Scores)
        diff == n * parts_envelope.average_similarity - C17_Sum(C17_Scores)
    IN /\ n = 0 => parts_envelope.average_similarity = 0
       /\ n > 0 => (2 * diff <= n /\ -2 * diff <= n)
       /\ C17_Scores = <<900, 600, 300>> => parts_envelope.average_similarity = 600

\* the scores 0.9, 0.6, 0.3 were averaged to 0.6
C17_Witness ==
  /\ parts_pc = "answered"
  /\ C17_Scores = <<900, 600, 300>>
  /\ parts_envelope.average_similarity = 600

\* the retrieved documents that pass the candidate test, with their scores, in
\* retrieval order
C18_AllCandidates(hits, q) ==
  LET RECURSIVE All(_)
      All(i) ==
        IF i > Len(hits) THEN <<>>
        ELSE (IF Get(hits[i].description, <<>>).k = "str"
              THEN Tier2Keep(hits[i], SafeDiagnosis(hits[i]),
                             Get(hits[i].description, <<>>).v, <<>>, q)
              ELSE <<>>) \o All(i + 1)
  IN All(1)

\* C18 (as claimed): when Tier 2 retrieved more candidates than top_k, the list
\* returned is the top_k highest-scoring of all retrieved candidates, sorted by
\* descending score.
C18_TopKOfAllCandidates ==
  (EngineReturned /\ tier = 2
     /\ Len(C18_AllCandidates(fallback_response.hits, query_text)) > top_k)
    => LET best == SortByScoreDesc(C18_AllCandidates(fallback_response.hits, query_text))
       IN /\ Len(results) = top_k
          /\ \A i \in 1..top_k : results[i].similarity_score = best[i].similarity_score

\* C19 (as claimed): Tier 2 makes at most 3 match-all reads, stops at the first
\* read that reports documents, and delays only between two attempts, never
\* after the last one: at most 2 delays.
C19_DelaysOnlyBetweenReads ==
  /\ Len(reads) <= MaxReadAttempts
  /\ \A i \in 1..(Len(reads) - 1) : reads[i] # "docs"
  /\ sleeps <= MaxReadAttempts - 1
  /\ (EngineReturned /\ reads # <<>>) => sleeps <= Len(reads) - 1

\* number of query words found in a text (a word counts each time it is listed)
C20_WordsIn(query_words, text) ==
  Cardinality({i \in 1..Len(query_words) : IsSubstr(query_words[i], text)})

\* C20 (as claimed): a Tier 2 score is 0.3, plus 0.3 per query word found in the
\* diagnosis, plus 0.1 per query word found in the description, capped at 1.0;
\* a word found in both adds both increments.
C20_BothIncrements ==
  (EngineReturned /\ tier = 2) =>
    \A i \in 1..Len(results) :
       LET query_words == Split(Lower(query_text))
       IN results[i].similarity_score =
            Min(One, BaseSimilarity
                     + DiagnosisWordBonus * C20_WordsIn(query_words, Lower(results[i].diagnosis))
                     + DescriptionWordBonus * C20_WordsIn(query_words, Lower(results[i].description.v)))

\* C21: the tiers escalate in order. A match-all read is made only after a Tier 1
\* response without hits. When the Tier 1 response holds a hit, the engine makes no
\* match-all read, generates no Tier 3 list and returns exactly the Tier 1 hits, one
\* result per hit. A Tier 3 list is returned only after the Tier 1 search raised, or
\* after Tier 2 read documents and kept no candidate or raised.
C21_TiersEscalateInOrder ==
  /\ reads # <<>> => (tier1 = "nohits" /\ response = <<>>)
  /\ EngineReturned =>
       /\ response # <<>> =>
            /\ reads = <<>>
            /\ tier = 1
            /\ Len(results) = Len(response)
            /\ \A d \in Docs :
                 Cardinality({i \in 1..Len(results) : results[i].u_id = d.u_id})
                 = Cardinality({i \in 1..Len(response) : response[i].source.u_id = d.u_id})
       /\ tier = 3 =>
            \/ tier1 = "raise"
            \/ /\ tier1 = "nohits"
               /\ fallback_response.set
               /\ LET f == Tier2Filter(fallback_response.hits, 1, <<>>, query_text, top_k)
                  IN f.raised \/ f.results = <<>>

\* Tier 1 answered two hits, the lower score first, and the engine returned
C21_Witness ==
  /\ EngineReturned
  /\ Len(response) = 2
  /\ response[1].score < response[2].score
  /\ response[1].source.u_id # response[2].source.u_id
  /\ Len(results) = 2

\* the cases a query text selects: the lists of the table whose keyword stands in
\* the lower-cased text or holds it, one after the other in table order, and the
\* default list when no keyword does
C22_Selected(q) ==
  LET hit(i) == \/ IsSubstr(medical_cases[i].keyword, Lower(q))
                \/ IsSubstr(Lower(q), medical_cases[i].keyword)
      lists == [i \in 1..Len(medical_cases) |-> IF hit(i) THEN medical_cases[i].cases ELSE <<>>]
  IN IF \E i \in 1..Len(medical_cases) : hit(i) THEN Concat(lists) ELSE default_cases

\* C22: the list of _generate_fallback_results holds the first top_k of the selected
\* cases, in their order, and the entry of rank i (from 0) has the similarity
\* max(0.3, 0.8 - 0.1 i).
C22_FallbackListAndScores ==
  fb_pc = "generated" =>
    LET sel == C22_Selected(fb_query)
    IN /\ Len(fb_results) = Min(fb_top_k, Len(sel))
       /\ \A i \in 1..Len(fb_results) :
            /\ fb_results[i].u_id = sel[i].u_id
            /\ fb_results[i].diagnosis = sel[i].diagnosis
            /\ fb_results[i].similarity_score
                 = (IF 800 - 100 * (i - 1) > 300 THEN 800 - 100 * (i - 1) ELSE 300)

\* seven cases of two or more lists were returned, the last one held at 0.3
C22_Witness ==
  /\ fb_pc = "generated"
  /\ Len(fb_results) = 7
  /\ fb_results[7].similarity_score = 300
  /\ fb_results[4].u_id # fb_results[1].u_id

\* C26 (as claimed): no case id stands twice in the list of _generate_fallback_results.
C26_NoCaseTwice ==
  fb_pc = "generated" =>
    \A i, j \in 1..Len(fb_results) : i # j => fb_results[i].u_id # fb_results[j].u_id

\* C24: the list the engine returns is ordered by non-increasing similarity_score,
\* whichever tier produced it.
C24_OrderedByScore ==
  EngineReturned =>
    \A i, j \in 1..Len(results) :
      i < j => results[i].similarity_score >= results[j].similarity_score

\* Tier 1 answered the lower score first and the engine returned the higher one first
C24_Witness ==
  /\ EngineReturned
  /\ tier = 1
  /\ Len(response) = 2
  /\ response[1].score < response[2].score
  /\ results[1].similarity_score > results[2].similarity_score

\* C25 (as claimed): the count load_and_index_data returns is the number of
\* documents whose index write succeeded during the call.
C25_CountIsIndexed ==
  ing_pc = "returned" =>
    ing_result = Cardinality({i \in 1..Len(outcomes) : outcomes[i] = "indexed"})

\* some emergency keyword stands in the lower-cased diagnosis or findings
C27_KeywordFound ==
  \E i \in 1..Len(EmergencyKeywords) :
    \/ IsSubstr(EmergencyKeywords[i], Lower(Get(al_input.diagnosis, <<>>).v))
    \/ IsSubstr(EmergencyKeywords[i], Lower(Get(al_input.findings, <<>>).v))

\* C27: evaluate_alert_need sends an alert email only when alert_needed is 'yes',
\* email alerts are enabled and a doctor address is configured; alert_needed is
\* 'yes' exactly when some emergency keyword stands in the lower-cased diagnosis
\* or findings; email_sent is false whenever no email was sent or sending failed.
C27_AlertOnlyWhenNeeded ==
  (al_pc = "returned" /\ ~al_raised) =>
    /\ al_emails # <<>> =>
         /\ al_result.alert_needed = "yes"
         /\ al_config.enabled
         /\ al_config.doctor_email # <<>>
         /\ al_emails[1].to = al_config.doctor_email
    /\ al_result.alert_needed = "yes" <=> C27_KeywordFound
    /\ (al_emails = <<>> \/ \E i \in 1..Len(al_emails) : al_emails[i].ses = "raise")
         => ~al_result.email_sent

\* a keyword was found with alerts enabled and an address configured, the email
\* was sent and SES raised
C27_Witness ==
  /\ al_pc = "returned"
  /\ ~al_raised
  /\ al_result.alert_needed = "yes"
  /\ al_config.enabled
  /\ Len(al_emails) = 1
  /\ al_emails[1].ses = "raise"
  /\ ~al_result.email_sent

\* C23: search_similar_cases is read-only and keeps no state: the searches call
\* nothing but search on the index client, the index stays as each call found
\* it, and a call whose steps were interleaved with those of another call
\* returns the list it returns when run by itself against that index.
C23_InterleavedAsAlone ==
  /\ cx_ops \subseteq {"search"}
  /\ \A p \in DOMAIN cx_call :
       /\ cx_call[p].pc # "idle" => cx_call[p].seen = cx_index
       /\ cx_call[p].pc = "returned" =>
            cx_call[p].returned
              = SearchAlone(cx_index, cx_call[p].query_text, cx_call[p].top_k)

\* two calls with different query texts ran side by side and returned different lists
C23_Witness ==
  /\ \A p \in DOMAIN cx_call : cx_call[p].pc = "returned" /\ cx_call[p].overlapped
  /\ cx_call[1].query_text # cx_call[2].query_text
  /\ cx_call[1].returned # cx_call[2].returned
  /\ cx_call[1].returned # <<>>
  /\ cx_call[2].returned # <<>>

====
